---- MODULE Spec2Model ----
(***************************************************************************)
(* Model of the smart_sales_analyzer pipeline: the synthetic data          *)
(* generator (src/src/synthetic_data_generator.py) and the ETL stages      *)
(* (src/src/etl.py).                                                       *)
(*                                                                         *)
(* Text is a sequence of one-character strings, so that formatting,        *)
(* parsing, slicing and case conversion are computed, not assumed.  A      *)
(* cell of a data frame is a tagged record: [null], [int], [float] (in     *)
(* thousandths), [date] (a day ordinal) or [str] (text).  A data frame is  *)
(* [columns, dtypes, rows] with every row aligned to the columns.          *)
(***************************************************************************)
EXTENDS Integers, Sequences, FiniteSets, TLC

VARIABLES
  stdRandom,    \* state of the process-wide `random` module generator
  fakerRandom,  \* state of the random generator shared by all Faker objects
  fakerLenient, \* whether the installed Faker accepts an inverted date range
  hashOrder,    \* this process's iteration order of sets / unordered unique()
  gen,          \* per generator object: the seed it was constructed with
  calls,        \* per generator object: the calls made on it so far
  outs,         \* per generator object: what those calls returned
  lastUser,     \* the generator object that last seeded or drew random numbers
  alone,        \* per generator object: no other object seeded or drew since it was built
  call,         \* the last call made: its name and arguments
  ret,          \* what the last call returned or raised
  df,           \* the dataset handed to the ETL stages
  summaries,    \* what build_summaries returned or raised
  report,       \* what run_quality_checks returned or raised
  pc,           \* where SalesETL.run stands
  written       \* the outputs SalesETL.run has written so far, in order

vars ==
  << stdRandom, fakerRandom, fakerLenient, hashOrder, gen, calls, outs,
     lastUser, alone, call, ret, df, summaries, report, pc, written >>

(***************************************************************************)
(* Bounds of the model.                                                    *)
(***************************************************************************)
RngMod == 16
MaxSeed == 1
MaxRows == 2
MaxDate == 1
MaxShipDays == 2
MaxDetCalls == 2

(***************************************************************************)
(* Text.                                                                   *)
(***************************************************************************)
\* The characters the model uses, in ASCII order.
Alphabet ==
  <<" ","-",".","/","0","1","2","3","4","5","6","7","8","9">>
  \o <<"A","B","C","D","E","F","G","H","I","J","K","L","M","N","O","P","Q","R","S","T","U","V","W","X","Y","Z">>
  \o <<"_","a","b","c","d","e","f","g","h","i","j","k","l","m","n","o","p","q","r","s","t","u","v","w","x","y","z">>

CharCode(c) == CHOOSE i \in 1..Len(Alphabet) : Alphabet[i] = c

IsDigit(c) == CharCode(c) \in 5..14

\* str.upper() and str.lower(), one character at a time.
UpperChar(c) == IF CharCode(c) \in 42..67 THEN Alphabet[CharCode(c) - 27] ELSE c

LowerChar(c) == IF CharCode(c) \in 15..40 THEN Alphabet[CharCode(c) + 27] ELSE c

Upper(s) == [i \in 1..Len(s) |-> UpperChar(s[i])]

Lower(s) == [i \in 1..Len(s) |-> LowerChar(s[i])]

\* s[:n]
Prefix(s, n) == SubSeq(s, 1, IF n < Len(s) THEN n ELSE Len(s))

DigitChar(d) == Alphabet[5 + d]

DigitValue(c) == CharCode(c) - 5

RECURSIVE NatToStr(_)
NatToStr(n) ==
  IF n < 10 THEN << DigitChar(n) >>
  ELSE NatToStr(n \div 10) \o << DigitChar(n % 10) >>

\* str(n) of an integer
IntToStr(n) == IF n < 0 THEN << "-" >> \o NatToStr(0 - n) ELSE NatToStr(n)

\* n written with at least w digits, zero padded ({n:0w})
RECURSIVE ZeroPad(_, _)
ZeroPad(n, w) ==
  LET s == NatToStr(n) IN IF Len(s) >= w THEN s ELSE << "0" >> \o ZeroPad(n, w - 1)

AllDigits(s) == Len(s) > 0 /\ \A i \in 1..Len(s) : IsDigit(s[i])

RECURSIVE DigitsToNat(_)
DigitsToNat(s) ==
  IF Len(s) = 0 THEN 0
  ELSE 10 * DigitsToNat(SubSeq(s, 1, Len(s) - 1)) + DigitValue(s[Len(s)])

\* Lexicographic order of text by character code.
RECURSIVE StrLess(_, _)
StrLess(a, b) ==
  IF Len(b) = 0 THEN FALSE
  ELSE IF Len(a) = 0 THEN TRUE
  ELSE IF a[1] # b[1] THEN CharCode(a[1]) < CharCode(b[1])
  ELSE StrLess(Tail(a), Tail(b))

(***************************************************************************)
(* The generator's class-level tables.                                     *)
(***************************************************************************)
US_CITIES ==
  << [city |-> <<"N","e","w"," ","Y","o","r","k">>, state |-> <<"N","e","w"," ","Y","o","r","k">>,
      zip_prefix |-> <<"1","0","0">>, region |-> <<"E","a","s","t">>],
     [city |-> <<"L","o","s"," ","A","n","g","e","l","e","s">>, state |-> <<"C","a","l","i","f","o","r","n","i","a">>,
      zip_prefix |-> <<"9","0","0">>, region |-> <<"W","e","s","t">>],
     [city |-> <<"C","h","i","c","a","g","o">>, state |-> <<"I","l","l","i","n","o","i","s">>,
      zip_prefix |-> <<"6","0","6">>, region |-> <<"C","e","n","t","r","a","l">>],
     [city |-> <<"H","o","u","s","t","o","n">>, state |-> <<"T","e","x","a","s">>,
      zip_prefix |-> <<"7","7","0">>, region |-> <<"C","e","n","t","r","a","l">>],
     [city |-> <<"P","h","o","e","n","i","x">>, state |-> <<"A","r","i","z","o","n","a">>,
      zip_prefix |-> <<"8","5","0">>, region |-> <<"W","e","s","t">>],
     [city |-> <<"P","h","i","l","a","d","e","l","p","h","i","a">>, state |-> <<"P","e","n","n","s","y","l","v","a","n","i","a">>,
      zip_prefix |-> <<"1","9","1">>, region |-> <<"E","a","s","t">>],
     [city |-> <<"S","a","n"," ","A","n","t","o","n","i","o">>, state |-> <<"T","e","x","a","s">>,
      zip_prefix |-> <<"7","8","2">>, region |-> <<"C","e","n","t","r","a","l">>],
     [city |-> <<"S","a","n"," ","D","i","e","g","o">>, state |-> <<"C","a","l","i","f","o","r","n","i","a">>,
      zip_prefix |-> <<"9","2","1">>, region |-> <<"W","e","s","t">>],
     [city |-> <<"D","a","l","l","a","s">>, state |-> <<"T","e","x","a","s">>,
      zip_prefix |-> <<"7","5","2">>, region |-> <<"C","e","n","t","r","a","l">>],
     [city |-> <<"S","a","n"," ","J","o","s","e">>, state |-> <<"C","a","l","i","f","o","r","n","i","a">>,
      zip_prefix |-> <<"9","5","1">>, region |-> <<"W","e","s","t">>],
     [city |-> <<"A","u","s","t","i","n">>, state |-> <<"T","e","x","a","s">>,
      zip_prefix |-> <<"7","8","7">>, region |-> <<"C","e","n","t","r","a","l">>],
     [city |-> <<"J","a","c","k","s","o","n","v","i","l","l","e">>, state |-> <<"F","l","o","r","i","d","a">>,
      zip_prefix |-> <<"3","2","2">>, region |-> <<"S","o","u","t","h">>],
     [city |-> <<"F","o","r","t"," ","W","o","r","t","h">>, state |-> <<"T","e","x","a","s">>,
      zip_prefix |-> <<"7","6","1">>, region |-> <<"C","e","n","t","r","a","l">>],
     [city |-> <<"C","o","l","u","m","b","u","s">>, state |-> <<"O","h","i","o">>,
      zip_prefix |-> <<"4","3","2">>, region |-> <<"E","a","s","t">>],
     [city |-> <<"C","h","a","r","l","o","t","t","e">>, state |-> <<"N","o","r","t","h"," ","C","a","r","o","l","i","n","a">>,
      zip_prefix |-> <<"2","8","2">>, region |-> <<"S","o","u","t","h">>],
     [city |-> <<"I","n","d","i","a","n","a","p","o","l","i","s">>, state |-> <<"I","n","d","i","a","n","a">>,
      zip_prefix |-> <<"4","6","2">>, region |-> <<"C","e","n","t","r","a","l">>],
     [city |-> <<"S","e","a","t","t","l","e">>, state |-> <<"W","a","s","h","i","n","g","t","o","n">>,
      zip_prefix |-> <<"9","8","1">>, region |-> <<"W","e","s","t">>],
     [city |-> <<"D","e","n","v","e","r">>, state |-> <<"C","o","l","o","r","a","d","o">>,
      zip_prefix |-> <<"8","0","2">>, region |-> <<"W","e","s","t">>],
     [city |-> <<"B","o","s","t","o","n">>, state |-> <<"M","a","s","s","a","c","h","u","s","e","t","t","s">>,
      zip_prefix |-> <<"0","2","1">>, region |-> <<"E","a","s","t">>],
     [city |-> <<"N","a","s","h","v","i","l","l","e">>, state |-> <<"T","e","n","n","e","s","s","e","e">>,
      zip_prefix |-> <<"3","7","2">>, region |-> <<"S","o","u","t","h">>],
     [city |-> <<"D","e","t","r","o","i","t">>, state |-> <<"M","i","c","h","i","g","a","n">>,
      zip_prefix |-> <<"4","8","2">>, region |-> <<"C","e","n","t","r","a","l">>],
     [city |-> <<"P","o","r","t","l","a","n","d">>, state |-> <<"O","r","e","g","o","n">>,
      zip_prefix |-> <<"9","7","2">>, region |-> <<"W","e","s","t">>],
     [city |-> <<"L","a","s"," ","V","e","g","a","s">>, state |-> <<"N","e","v","a","d","a">>,
      zip_prefix |-> <<"8","9","1">>, region |-> <<"W","e","s","t">>],
     [city |-> <<"M","i","a","m","i">>, state |-> <<"F","l","o","r","i","d","a">>,
      zip_prefix |-> <<"3","3","1">>, region |-> <<"S","o","u","t","h">>],
     [city |-> <<"A","t","l","a","n","t","a">>, state |-> <<"G","e","o","r","g","i","a">>,
      zip_prefix |-> <<"3","0","3">>, region |-> <<"S","o","u","t","h">>] >>
SHIP_MODES ==
  << <<"F","i","r","s","t"," ","C","l","a","s","s">>,
     <<"S","a","m","e"," ","D","a","y">>,
     <<"S","e","c","o","n","d"," ","C","l","a","s","s">>,
     <<"S","t","a","n","d","a","r","d"," ","C","l","a","s","s">> >>
SEGMENTS ==
  << <<"C","o","n","s","u","m","e","r">>,
     <<"C","o","r","p","o","r","a","t","e">>,
     <<"H","o","m","e"," ","O","f","f","i","c","e">> >>
CATEGORIES ==
  << [category |-> <<"F","u","r","n","i","t","u","r","e">>,
      subcategories |->
        << <<"B","o","o","k","c","a","s","e","s">>,
           <<"C","h","a","i","r","s">>,
           <<"F","u","r","n","i","s","h","i","n","g","s">>,
           <<"T","a","b","l","e","s">> >>],
     [category |-> <<"O","f","f","i","c","e"," ","S","u","p","p","l","i","e","s">>,
      subcategories |->
        << <<"A","p","p","l","i","a","n","c","e","s">>,
           <<"A","r","t">>,
           <<"B","i","n","d","e","r","s">>,
           <<"E","n","v","e","l","o","p","e","s">>,
           <<"F","a","s","t","e","n","e","r","s">>,
           <<"L","a","b","e","l","s">>,
           <<"P","a","p","e","r">>,
           <<"S","t","o","r","a","g","e">>,
           <<"S","u","p","p","l","i","e","s">> >>],
     [category |-> <<"T","e","c","h","n","o","l","o","g","y">>,
      subcategories |->
        << <<"A","c","c","e","s","s","o","r","i","e","s">>,
           <<"C","o","p","i","e","r","s">>,
           <<"M","a","c","h","i","n","e","s">>,
           <<"P","h","o","n","e","s">> >>] >>

\* Column names of a synthetic row, in the order the row dict is built.
Col ==
  [RowID |-> <<"R","o","w"," ","I","D">>,
   OrderID |-> <<"O","r","d","e","r"," ","I","D">>,
   OrderDate |-> <<"O","r","d","e","r"," ","D","a","t","e">>,
   ShipDate |-> <<"S","h","i","p"," ","D","a","t","e">>,
   ShipMode |-> <<"S","h","i","p"," ","M","o","d","e">>,
   CustomerID |-> <<"C","u","s","t","o","m","e","r"," ","I","D">>,
   CustomerName |-> <<"C","u","s","t","o","m","e","r"," ","N","a","m","e">>,
   Segment |-> <<"S","e","g","m","e","n","t">>,
   Country |-> <<"C","o","u","n","t","r","y">>,
   City |-> <<"C","i","t","y">>,
   State |-> <<"S","t","a","t","e">>,
   PostalCode |-> <<"P","o","s","t","a","l"," ","C","o","d","e">>,
   Region |-> <<"R","e","g","i","o","n">>,
   Category |-> <<"C","a","t","e","g","o","r","y">>,
   SubCategory |-> <<"S","u","b","-","C","a","t","e","g","o","r","y">>,
   ProductID |-> <<"P","r","o","d","u","c","t"," ","I","D">>,
   ProductName |-> <<"P","r","o","d","u","c","t"," ","N","a","m","e">>,
   Sales |-> <<"S","a","l","e","s">>]

(***************************************************************************)
(* Cells, data frames and the calendar.                                    *)
(***************************************************************************)
Null == [null |-> TRUE]

IntV(n) == [int |-> n]

\* A 64-bit float, held in thousandths.
FloatV(milli) == [float |-> milli]

\* A date, held as a day ordinal: 0 is 2020-12-31.
DateV(d) == [date |-> d]

StrV(s) == [str |-> s]

IsNull(c) == c = Null

IsInt(c) == DOMAIN c = {"int"}

IsFloat(c) == DOMAIN c = {"float"}

IsDate(c) == DOMAIN c = {"date"}

IsStr(c) == DOMAIN c = {"str"}

\* date.year, date.month and date.day inside the modelled window
\* (2020-12-01 .. 2021-02-28).
Year(d) == IF d <= 0 THEN 2020 ELSE 2021

Month(d) == IF d <= 0 THEN 12 ELSE IF d <= 31 THEN 1 ELSE 2

Day(d) == IF d <= 0 THEN 31 + d ELSE IF d <= 31 THEN d ELSE d - 31

\* None, where a data frame is optional.
NoneDf == [none |-> TRUE]

IsNone(d) == d = NoneDf

\* pl.DataFrame([]): no columns, no rows.
EmptyFrame == [columns |-> << >>, dtypes |-> << >>, rows |-> << >>]

\* len(df)
Height(d) == Len(d.rows)

HasColumn(d, name) == \E i \in 1..Len(d.columns) : d.columns[i] = name

ColumnIndex(d, name) == CHOOSE i \in 1..Len(d.columns) : d.columns[i] = name

\* The cells of one column, top to bottom.
Column(d, name) ==
  LET k == ColumnIndex(d, name) IN [r \in 1..Height(d) |-> d.rows[r][k]]

DtypeOf(d, name) == d.dtypes[ColumnIndex(d, name)]

Reverse(s) == [i \in 1..Len(s) |-> s[Len(s) + 1 - i]]

\* The distinct elements of a sequence, in order of first appearance.
RECURSIVE Distinct(_)
Distinct(s) ==
  IF Len(s) = 0 THEN << >>
  ELSE LET front == Distinct(SubSeq(s, 1, Len(s) - 1))
           last == s[Len(s)]
       IN IF \E i \in 1..Len(front) : front[i] = last
            THEN front ELSE Append(front, last)

\* The order in which this process iterates a set, or returns the rows of an
\* unordered unique(): either the order written or its reverse.
Unordered(s) == IF hashOrder = 0 THEN s ELSE Reverse(s)

(***************************************************************************)
(* Random numbers.  Both generators are process-wide: `random` is the      *)
(* module-level generator, and every Faker object draws from one shared    *)
(* generator that Faker.seed seeds.                                        *)
(***************************************************************************)
Advance(s) == (5 * s + 3) % RngMod

\* The value a state yields.  The multiplier spreads the few states of the
\* model over the tables, so that the first rows of a run with the default
\* seed include a city whose zip prefix starts with 0.
Output(s) == (s * 40485) % 65536

\* random.seed(seed) / Faker.seed(seed)
Seeded(seed) == seed % RngMod

RECURSIVE AdvanceBy(_, _)
AdvanceBy(s, k) == IF k = 0 THEN s ELSE AdvanceBy(Advance(s), k - 1)

\* The value of the k-th draw after state s, below n.
Below(s, k, n) == Output(AdvanceBy(s, k)) % n

\* random.randint(a, b): raises ValueError on an empty range.
randint(a, b, s) ==
  IF a > b THEN [status |-> "ValueError", state |-> s]
  ELSE [status |-> "ok", value |-> a + Below(s, 0, b - a + 1), state |-> Advance(s)]

\* random.choice(seq)
choice(seq, s) == seq[1 + Below(s, 0, Len(seq))]

\* Faker.date_between(start_date, end_date) on two dates.  On an inverted
\* range a strict Faker raises ValueError; a lenient one draws uniformly
\* between the two ends all the same.
date_between(start, end, f) ==
  IF start <= end
    THEN [status |-> "ok", value |-> start + Below(f, 0, end - start + 1),
          state |-> Advance(f)]
  ELSE IF ~fakerLenient THEN [status |-> "ValueError", state |-> f]
  ELSE [status |-> "ok", value |-> end + Below(f, 0, start - end + 1),
        state |-> Advance(f)]

(***************************************************************************)
(* The field generators of SyntheticDataGenerator.                         *)
(***************************************************************************)
\* The names Faker.name() draws from, as whitespace-separated tokens.
FakerNames ==
  << << <<"D","a","n","a">>, <<"C","o","l","e">> >>,
     << <<"D","r",".">>, <<"L","e","e">>, <<"R","a","y">> >>,
     << <<"O","m","a","r">>, <<"D","i","a","z">> >> >>

RECURSIVE JoinTokens(_)
JoinTokens(parts) ==
  IF Len(parts) = 0 THEN << >>
  ELSE IF Len(parts) = 1 THEN parts[1]
  ELSE parts[1] \o << " " >> \o JoinTokens(Tail(parts))

generate_customer_name(f) ==
  [value |-> choice(FakerNames, f), state |-> Advance(f)]

\* `parts` is customer_name.split()
generate_customer_id(parts, s) ==
  [value |-> Upper(IF Len(parts) < 2
                     THEN (IF Len(parts) > 0 THEN << parts[1][1] >> ELSE << "X" >>)
                            \o << "X" >>
                     ELSE << parts[1][1], parts[2][1] >>)
               \o << "-" >> \o IntToStr(randint(10000, 99999, s).value),
   state |-> randint(10000, 99999, s).state]

\* The end of generate_order_dates: the pair, or the error of the second draw.
ShipAfter(order, ship) ==
  IF ship.status # "ok" THEN [status |-> ship.status, state |-> ship.state]
  ELSE [status |-> "ok", order_date |-> order.value, ship_date |-> ship.value,
        state |-> ship.state]

\* The second half of generate_order_dates: the ship date drawn after the
\* order date `order`.
OrderThenShip(order, min_ship_days, max_ship_days) ==
  IF order.status # "ok" THEN [status |-> order.status, state |-> order.state]
  ELSE ShipAfter(order, date_between(order.value + min_ship_days,
                                     order.value + max_ship_days, order.state))

generate_order_dates(start_date, end_date, min_ship_days, max_ship_days, f) ==
  OrderThenShip(date_between(start_date, end_date, f), min_ship_days, max_ship_days)

LocationOf(city_info, digits) ==
  [City |-> city_info.city, State |-> city_info.state,
   PostalCode |-> city_info.zip_prefix \o IntToStr(digits.value),
   Region |-> city_info.region, state |-> digits.state]

generate_location_data(s) ==
  LocationOf(choice(US_CITIES, s), randint(10, 99, Advance(s)))

generate_categories(s) ==
  [Category |-> choice(CATEGORIES, s).category,
   SubCategory |-> choice(Unordered(choice(CATEGORIES, s).subcategories), Advance(s)),
   state |-> Advance(Advance(s))]

generate_order_id(order_date, s) ==
  [value |-> << "U", "S", "-" >> \o IntToStr(Year(order_date)) \o << "-" >>
               \o IntToStr(randint(100000, 999999, s).value),
   state |-> randint(100000, 999999, s).state]

FloatOf(amount) ==
  IF amount.status # "ok" THEN amount
  ELSE [status |-> "ok", value |-> FloatV(1000 * amount.value), state |-> amount.state]

generate_sales_amount(min_amount, max_amount, s) ==
  FloatOf(randint(min_amount, max_amount, s))

generate_product_id(category, subcategory, s) ==
  [value |-> Upper(Prefix(category, 3)) \o << "-" >> \o Upper(Prefix(subcategory, 2))
               \o << "-", "1", "0", "0" >> \o IntToStr(randint(10000, 99999, s).value),
   state |-> randint(10000, 99999, s).state]

\* The fallback product names: "<category> - <sub-category>" for every pair.
RECURSIVE ProductsOf(_, _)
ProductsOf(category, subs) ==
  IF Len(subs) = 0 THEN << >>
  ELSE << category \o << " ", "-", " " >> \o subs[1] >>
         \o ProductsOf(category, Tail(subs))

RECURSIVE FallbackFrom(_)
FallbackFrom(entries) ==
  IF Len(entries) = 0 THEN << >>
  ELSE ProductsOf(entries[1].category, Unordered(entries[1].subcategories))
         \o FallbackFrom(Tail(entries))

fallback_products == [i \in 1..Len(FallbackFrom(CATEGORIES)) |->
                        StrV(FallbackFrom(CATEGORIES)[i])]

(***************************************************************************)
(* The data-frame operations the pipeline calls.                           *)
(***************************************************************************)
CastFail == [fail |-> TRUE]

\* Truncation towards zero of a float held in thousandths.
Truncate(milli) == IF milli >= 0 THEN milli \div 1000 ELSE 0 - ((0 - milli) \div 1000)

RECURSIVE StripZeros(_)
StripZeros(s) ==
  IF Len(s) > 1 /\ s[Len(s)] = "0" THEN StripZeros(SubSeq(s, 1, Len(s) - 1)) ELSE s

\* The text of a float: "1500.0", "-5.0", "100.005".
FloatToStr(milli) ==
  LET abs == IF milli < 0 THEN 0 - milli ELSE milli
  IN (IF milli < 0 THEN << "-" >> ELSE << >>) \o NatToStr(abs \div 1000)
       \o << "." >> \o StripZeros(ZeroPad(abs % 1000, 3))

\* The text of a date: "2021-01-05".
DateToStr(d) ==
  ZeroPad(Year(d), 4) \o << "-" >> \o ZeroPad(Month(d), 2) \o << "-" >>
    \o ZeroPad(Day(d), 2)

\* Text to integer: an optional sign and decimal digits.
StrToInt(s) ==
  IF AllDigits(s) THEN IntV(DigitsToNat(s))
  ELSE IF Len(s) > 1 /\ s[1] = "-" /\ AllDigits(Tail(s))
    THEN IntV(0 - DigitsToNat(Tail(s)))
  ELSE CastFail

\* Text to date: "YYYY-MM-DD" of a day inside the modelled window.
StrToDate(s) ==
  IF Len(s) = 10 /\ s[5] = "-" /\ s[8] = "-" /\ AllDigits(SubSeq(s, 1, 4))
       /\ AllDigits(SubSeq(s, 6, 7)) /\ AllDigits(SubSeq(s, 9, 10))
    THEN LET y == DigitsToNat(SubSeq(s, 1, 4))
             m == DigitsToNat(SubSeq(s, 6, 7))
             dd == DigitsToNat(SubSeq(s, 9, 10))
         IN IF y = 2020 /\ m = 12 /\ dd \in 1..31 THEN DateV(dd - 31)
            ELSE IF y = 2021 /\ m = 1 /\ dd \in 1..31 THEN DateV(dd)
            ELSE IF y = 2021 /\ m = 2 /\ dd \in 1..28 THEN DateV(dd + 31)
            ELSE CastFail
  ELSE CastFail

\* Text to float: digits, with an optional sign and an optional fraction of up
\* to three digits.
StrToFloat(s) ==
  LET neg == Len(s) > 0 /\ s[1] = "-"
      body == IF neg THEN Tail(s) ELSE s
      dots == {i \in 1..Len(body) : body[i] = "."}
      sign == IF neg THEN 0 - 1 ELSE 1
  IN IF AllDigits(body) THEN FloatV(sign * 1000 * DigitsToNat(body))
     ELSE IF Cardinality(dots) = 1
       THEN LET p == CHOOSE i \in dots : TRUE
                whole == SubSeq(body, 1, p - 1)
                frac == SubSeq(body, p + 1, Len(body))
            IN IF AllDigits(whole) /\ AllDigits(frac) /\ Len(frac) <= 3
                 THEN FloatV(sign * (1000 * DigitsToNat(whole)
                        + DigitsToNat(frac \o [i \in 1..(3 - Len(frac)) |-> "0"])))
                 ELSE CastFail
     ELSE CastFail

\* One cell cast to a dtype; CastFail where the value has no image.  A date
\* cast to a number counts days from 1970-01-01 (2020-12-31 is day 18627).
CastCell(c, dtype) ==
  IF IsNull(c) THEN Null
  ELSE IF IsInt(c) THEN
    CASE dtype = "Int64" -> c
      [] dtype = "Float64" -> FloatV(1000 * c.int)
      [] dtype = "Utf8" -> StrV(IntToStr(c.int))
      [] dtype = "Date" -> DateV(c.int - 18627)
      [] OTHER -> CastFail
  ELSE IF IsFloat(c) THEN
    CASE dtype = "Int64" -> IntV(Truncate(c.float))
      [] dtype = "Float64" -> c
      [] dtype = "Utf8" -> StrV(FloatToStr(c.float))
      [] dtype = "Date" -> DateV(Truncate(c.float) - 18627)
      [] OTHER -> CastFail
  ELSE IF IsDate(c) THEN
    CASE dtype = "Int64" -> IntV(c.date + 18627)
      [] dtype = "Float64" -> FloatV(1000 * (c.date + 18627))
      [] dtype = "Utf8" -> StrV(DateToStr(c.date))
      [] dtype = "Date" -> c
      [] OTHER -> CastFail
  ELSE
    CASE dtype = "Int64" -> StrToInt(c.str)
      [] dtype = "Float64" -> StrToFloat(c.str)
      [] dtype = "Utf8" -> c
      [] dtype = "Date" -> StrToDate(c.str)
      [] OTHER -> CastFail

\* Expr.cast(dtype, strict=False): what cannot be cast becomes null.
CastLax(c, dtype) == IF CastCell(c, dtype) = CastFail THEN Null ELSE CastCell(c, dtype)

\* The dtype pl.DataFrame(rows) infers for a column from its cells.
InferDtype(cells) ==
  LET known == {i \in 1..Len(cells) : ~IsNull(cells[i])} IN
  IF known = {} THEN "Null"
  ELSE LET c == cells[CHOOSE i \in known : \A j \in known : i <= j]
       IN IF IsInt(c) THEN "Int64"
          ELSE IF IsFloat(c) THEN "Float64"
          ELSE IF IsDate(c) THEN "Date"
          ELSE "Utf8"

\* pl.DataFrame(rows) for a list of row dicts that share `columns`.
FromRows(columns, rows) ==
  IF Len(rows) = 0 THEN EmptyFrame
  ELSE [columns |-> columns,
        dtypes |-> [k \in 1..Len(columns) |->
                      InferDtype([r \in 1..Len(rows) |-> rows[r][k]])],
        rows |-> rows]

\* Series.max(): the greatest non-null value, None if there is none.
RECURSIVE MaxCell(_)
MaxCell(cells) ==
  IF Len(cells) = 0 THEN Null
  ELSE LET rest == MaxCell(Tail(cells))
           c == cells[1]
       IN IF IsNull(c) THEN rest
          ELSE IF IsNull(rest) THEN c
          ELSE IF IsInt(c) THEN (IF c.int >= rest.int THEN c ELSE rest)
          ELSE IF IsFloat(c) THEN (IF c.float >= rest.float THEN c ELSE rest)
          ELSE IF IsDate(c) THEN (IF c.date >= rest.date THEN c ELSE rest)
          ELSE (IF StrLess(c.str, rest.str) THEN rest ELSE c)

\* Series.min(): the least non-null value, None if there is none.
RECURSIVE MinCell(_)
MinCell(cells) ==
  IF Len(cells) = 0 THEN Null
  ELSE LET rest == MinCell(Tail(cells))
           c == cells[1]
       IN IF IsNull(c) THEN rest
          ELSE IF IsNull(rest) THEN c
          ELSE IF IsInt(c) THEN (IF c.int <= rest.int THEN c ELSE rest)
          ELSE IF IsFloat(c) THEN (IF c.float <= rest.float THEN c ELSE rest)
          ELSE IF IsDate(c) THEN (IF c.date <= rest.date THEN c ELSE rest)
          ELSE (IF StrLess(rest.str, c.str) THEN rest ELSE c)

\* Python's int(x) of a value read from a frame; CastFail where it raises.
PyInt(c) ==
  IF IsInt(c) THEN c
  ELSE IF IsFloat(c) THEN IntV(Truncate(c.float))
  ELSE IF IsStr(c) THEN StrToInt(c.str)
  ELSE CastFail

\* pl.concat([a, b]): vertical, so the schemas must agree; a frame without
\* columns takes the other's.
Concat(a, b) ==
  IF IsNone(a) \/ IsNone(b) THEN [status |-> "TypeError"]
  ELSE IF Len(a.columns) = 0 THEN [status |-> "ok", value |-> b]
  ELSE IF a.columns = b.columns /\ a.dtypes = b.dtypes
    THEN [status |-> "ok",
          value |-> [columns |-> a.columns, dtypes |-> a.dtypes,
                     rows |-> a.rows \o b.rows]]
  ELSE [status |-> "ShapeError"]

(***************************************************************************)
(* SyntheticDataGenerator.generate_synthetic_data and augment_dataframe.   *)
(***************************************************************************)
SyntheticColumns ==
  << Col.RowID, Col.OrderID, Col.OrderDate, Col.ShipDate, Col.ShipMode, Col.CustomerID,
     Col.CustomerName, Col.Segment, Col.Country, Col.City, Col.State, Col.PostalCode, Col.Region,
     Col.Category, Col.SubCategory, Col.ProductID, Col.ProductName, Col.Sales >>

\* The product-name pool: the reference's distinct product names when it has
\* rows and a "Product Name" column, the fallback pool when that is empty.
OrFallback(extracted) ==
  IF Len(extracted) = 0 THEN fallback_products ELSE extracted

ProductNames(original_df) ==
  OrFallback(IF ~IsNone(original_df) /\ Height(original_df) > 0
                  /\ HasColumn(original_df, Col.ProductName)
               THEN Unordered(Distinct(Column(original_df, Col.ProductName)))
               ELSE << >>)

\* NextAfter without the "+ 1".
NextAfterSame(top) == IF top = CastFail THEN 1 ELSE top.int

\* int(max) + 1, or the default 1 when int() raised.
NextAfter(top) == IF top = CastFail THEN 1 ELSE top.int + 1

\* The first row id: max("Row ID") + 1 of a reference that has rows and a
\* "Row ID" column whose maximum int() accepts, 1 in every other case.
StartRowId(original_df) ==
  IF ~IsNone(original_df) /\ Height(original_df) > 0
       /\ HasColumn(original_df, Col.RowID)
    THEN NextAfter(PyInt(MaxCell(Column(original_df, Col.RowID))))
    ELSE 1

\* RowIdAt without the "+ i".
RowIdAtStart(start_row_id, i) == start_row_id

\* The row id given to the i-th generated row (i counts from 0).
RowIdAt(start_row_id, i) == start_row_id + i

\* The draws `random` makes for one row, in the order the code makes them:
\* customer id, order id, city, postal digits, category, sub-category,
\* product id, product name, sales, ship mode, segment.
DrawsPerRow == 11

\* The cells of the row dict, built from the values the field generators
\* returned; s is the state of `random` when the row began.
RowCells(row_id, name, customer_id, dates, order_id, location, categories, product_names, s) ==
  << IntV(row_id),
     StrV(order_id.value),
     DateV(dates.order_date),
     DateV(dates.ship_date),
     StrV(choice(SHIP_MODES, AdvanceBy(s, 9))),
     StrV(customer_id.value),
     StrV(JoinTokens(name.value)),
     StrV(choice(SEGMENTS, AdvanceBy(s, 10))),
     StrV(<<"U","n","i","t","e","d"," ","S","t","a","t","e","s">>),
     StrV(location.City),
     StrV(location.State),
     StrV(location.PostalCode),
     StrV(location.Region),
     StrV(categories.Category),
     StrV(categories.SubCategory),
     StrV(generate_product_id(categories.Category, categories.SubCategory,
                              categories.state).value),
     choice(product_names, AdvanceBy(s, 7)),
     generate_sales_amount(10, 2900, AdvanceBy(s, 8)).value >>

\* One pass of the loop body once the name and the dates are drawn: the
\* i-th row and the generators' states after it, or the error raised.
RowAfterDates(i, start_row_id, product_names, s, name, dates) ==
  IF dates.status # "ok"
    THEN [status |-> dates.status, std |-> Advance(s), fk |-> dates.state]
  ELSE [status |-> "ok",
        row |-> RowCells(RowIdAt(start_row_id, i), name,
                         generate_customer_id(name.value, s), dates,
                         generate_order_id(dates.order_date, Advance(s)),
                         generate_location_data(AdvanceBy(s, 2)),
                         generate_categories(AdvanceBy(s, 4)),
                         product_names, s),
        std |-> AdvanceBy(s, DrawsPerRow),
        fk |-> dates.state]

GenerateRow(i, start_row_id, product_names, start_date, end_date, s, f) ==
  RowAfterDates(i, start_row_id, product_names, s, generate_customer_name(f),
                generate_order_dates(start_date, end_date, 1, 14, Advance(f)))

\* for i in range(num_rows): the rows appended so far, or the first error.
RECURSIVE GenerateRows(_, _, _, _, _, _, _, _, _)
AppendRow(i, num_rows, start_row_id, product_names, start_date, end_date, synthetic_rows, one) ==
  IF one.status # "ok"
    THEN [status |-> one.status, rows |-> synthetic_rows,
          std |-> one.std, fk |-> one.fk]
  ELSE GenerateRows(i + 1, num_rows, start_row_id, product_names, start_date,
                    end_date, one.std, one.fk, Append(synthetic_rows, one.row))

GenerateRows(i, num_rows, start_row_id, product_names, start_date, end_date, s, f, synthetic_rows) ==
  IF i >= num_rows
    THEN [status |-> "ok", rows |-> synthetic_rows, std |-> s, fk |-> f]
  ELSE AppendRow(i, num_rows, start_row_id, product_names, start_date,
                 end_date, synthetic_rows,
                 GenerateRow(i, start_row_id, product_names, start_date,
                             end_date, s, f))

\* synthetic_df = pl.DataFrame(synthetic_rows), unless the loop raised.
FrameOfLoop(loop) ==
  IF loop.status # "ok"
    THEN [status |-> loop.status, std |-> loop.std, fk |-> loop.fk]
  ELSE [status |-> "ok", value |-> FromRows(SyntheticColumns, loop.rows),
        std |-> loop.std, fk |-> loop.fk]

\* generate_synthetic_data(original_df, num_rows, start_date, end_date) run
\* from generator states s (random) and f (Faker).
generate_synthetic_data(original_df, num_rows, start_date, end_date, s, f) ==
  FrameOfLoop(GenerateRows(0, num_rows, StartRowId(original_df),
                           ProductNames(original_df), start_date, end_date,
                           s, f, << >>))

\* One aligned column of the synthetic frame: cast to the reference dtype
\* when the synthetic frame has it, a null literal when it has not.
AlignedCell(synthetic_df, row, column_name, dtype) ==
  IF HasColumn(synthetic_df, column_name)
    THEN CastLax(row[ColumnIndex(synthetic_df, column_name)], dtype)
    ELSE Null

\* DataFrame.select(exprs): as many rows as the frame when an expression reads
\* a column, one row when every expression is a literal.
SelectHeight(synthetic_df, schema_columns) ==
  IF \E k \in 1..Len(schema_columns) : HasColumn(synthetic_df, schema_columns[k])
    THEN Height(synthetic_df)
    ELSE 1

\* synthetic_df.select(aligned_columns) for the reference's schema.
AlignToSchema(synthetic_df, original_df) ==
  [columns |-> original_df.columns,
   dtypes |-> original_df.dtypes,
   rows |-> [r \in 1..SelectHeight(synthetic_df, original_df.columns) |->
              [k \in 1..Len(original_df.columns) |->
                 AlignedCell(synthetic_df,
                             IF r <= Height(synthetic_df)
                               THEN synthetic_df.rows[r] ELSE << >>,
                             original_df.columns[k], original_df.dtypes[k])]]]

\* The end of augment_dataframe: pl.concat([original_df, synthetic_df]).
Combined(made, combined) ==
  IF combined.status # "ok"
    THEN [status |-> combined.status, std |-> made.std, fk |-> made.fk]
  ELSE [status |-> "ok", value |-> combined.value, std |-> made.std, fk |-> made.fk]

\* augment_dataframe after the synthetic frame `made` is generated.
AugmentWith(original_df, made) ==
  IF made.status # "ok" THEN made
  ELSE Combined(made,
                Concat(original_df,
                       IF ~IsNone(original_df) /\ Height(original_df) > 0
                         THEN AlignToSchema(made.value, original_df)
                         ELSE made.value))

\* augment_dataframe(original_df, num_synthetic_rows, start_date, end_date)
augment_dataframe(original_df, num_synthetic_rows, start_date, end_date, s, f) ==
  AugmentWith(original_df,
              generate_synthetic_data(original_df, num_synthetic_rows,
                                      start_date, end_date, s, f))

\* SalesETL.build_dataset(base_df, num_synthetic_rows, start_date, end_date)
build_dataset(base_df, num_synthetic_rows, start_date, end_date, s, f) ==
  IF IsNone(base_df) \/ Height(base_df) = 0
    THEN generate_synthetic_data(NoneDf, num_synthetic_rows, start_date,
                                 end_date, s, f)
    ELSE augment_dataframe(base_df, num_synthetic_rows, start_date, end_date, s, f)

(***************************************************************************)
(* Reference datasets: what load_base_dataset can hand to build_dataset,   *)
(* or a caller to the generator.                                           *)
(***************************************************************************)
nRowId == <<"r","o","w","_","i","d">>

cProfit == <<"P","r","o","f","i","t">>

\* A sales extract as read from CSV: integer postal codes, a column the
\* generator does not produce, row ids out of order.
RefStd ==
  [columns |-> << Col.RowID, Col.OrderDate, Col.PostalCode, Col.ProductName, Col.Sales, cProfit >>,
   dtypes |-> << "Int64", "Date", "Int64", "Utf8", "Float64", "Float64" >>,
   rows |-> << << IntV(7), DateV(1), IntV(42420), StrV(<<"D","e","s","k">>),
                  FloatV(261960), FloatV(41913) >>,
               << IntV(5), DateV(0), IntV(2116), StrV(<<"L","a","m","p">>),
                  FloatV(14620), FloatV(6871) >> >>]

\* The same kind of extract with its row-id column spelled row_id.
RefSnake ==
  [columns |-> << nRowId, Col.Sales >>,
   dtypes |-> << "Int64", "Float64" >>,
   rows |-> << << IntV(1), FloatV(261960) >>, << IntV(2), FloatV(14620) >> >>]

\* An extract that shares no column name with the generator's rows.
RefDisjoint ==
  [columns |-> << nRowId, cProfit >>,
   dtypes |-> << "Int64", "Float64" >>,
   rows |-> << << IntV(1), FloatV(41913) >> >>]

\* An extract whose row ids are not numbers.
RefText ==
  [columns |-> << Col.RowID, Col.Sales >>,
   dtypes |-> << "Utf8", "Float64" >>,
   rows |-> << << StrV(<<"A","1">>), FloatV(261960) >>,
               << StrV(<<"B","2">>), FloatV(14620) >> >>]

\* An extract with a header and no rows.
RefEmptyCols ==
  [columns |-> << Col.RowID, Col.Sales >>, dtypes |-> << "Int64", "Float64" >>,
   rows |-> << >>]

SyntheticDtypes ==
  << "Int64", "Utf8", "Date", "Date", "Utf8", "Utf8", "Utf8", "Utf8", "Utf8",
     "Utf8", "Utf8", "Utf8", "Utf8", "Utf8", "Utf8", "Utf8", "Utf8", "Float64" >>

\* A frame of the generator's own schema with no rows.
RefEmptySynthetic ==
  [columns |-> SyntheticColumns, dtypes |-> SyntheticDtypes, rows |-> << >>]

References ==
  { NoneDf, EmptyFrame, RefEmptyCols, RefEmptySynthetic, RefStd, RefSnake,
    RefDisjoint, RefText }

(***************************************************************************)
(* The generator objects and the calls made on them.                       *)
(***************************************************************************)
Instances == {1, 2}

NotConstructed == [constructed |-> FALSE]

Seeds == 0..MaxSeed

Dates == 0..MaxDate

RowCounts == 0..MaxRows

\* What a call hands back to its caller: the value, or the exception.
Returned(r) ==
  IF r.status = "ok" THEN [status |-> "ok", value |-> r.value]
  ELSE [status |-> r.status]

IsConstructed(g) == gen[g] # NotConstructed

\* The bookkeeping of one call on generator object g.
Record(g, c, r) ==
  /\ call' = c
  /\ ret' = Returned(r)
  /\ calls' = [calls EXCEPT ![g] = Append(@, c)]
  /\ outs' = [outs EXCEPT ![g] = Append(@, Returned(r))]
  /\ lastUser' = g
  /\ alone' = [alone EXCEPT ![g] = @ /\ lastUser = g]
  /\ UNCHANGED << fakerLenient, hashOrder, gen, df, summaries, report, pc, written >>

\* Construct without Faker.seed(seed).
ConstructFakerUnseeded(g, seed) ==
  /\ ~IsConstructed(g)
  /\ gen' = [gen EXCEPT ![g] = [constructed |-> TRUE, seed |-> seed]]
  /\ stdRandom' = Seeded(seed)
  /\ lastUser' = g
  /\ alone' = [alone EXCEPT ![g] = TRUE]
  /\ call' = [op |-> "__init__", seed |-> seed]
  /\ ret' = [status |-> "ok"]
  /\ UNCHANGED << fakerRandom, fakerLenient, hashOrder, calls, outs, df, summaries, report, pc, written >>

\* SyntheticDataGenerator(seed): seeds both process-wide generators.
Construct(g, seed) ==
  /\ ~IsConstructed(g)
  /\ gen' = [gen EXCEPT ![g] = [constructed |-> TRUE, seed |-> seed]]
  /\ fakerRandom' = Seeded(seed)
  /\ stdRandom' = Seeded(seed)
  /\ lastUser' = g
  /\ alone' = [alone EXCEPT ![g] = TRUE]
  /\ call' = [op |-> "__init__", seed |-> seed]
  /\ ret' = [status |-> "ok"]
  /\ UNCHANGED << fakerLenient, hashOrder, calls, outs, df, summaries, report, pc, written >>

\* A call on generator object g that returned or raised r, leaving the
\* generators in the states r carries.
Called(g, c, r) ==
  /\ IsConstructed(g)
  /\ stdRandom' = r.std
  /\ fakerRandom' = r.fk
  /\ Record(g, c, r)

GenerateSyntheticData(g, original_df, num_rows, start_date, end_date) ==
  Called(g, [op |-> "generate_synthetic_data", original_df |-> original_df,
             num_rows |-> num_rows, start_date |-> start_date,
             end_date |-> end_date],
         generate_synthetic_data(original_df, num_rows, start_date, end_date,
                                 stdRandom, fakerRandom))

AugmentDataframe(g, original_df, num_rows, start_date, end_date) ==
  Called(g, [op |-> "augment_dataframe", original_df |-> original_df,
             num_rows |-> num_rows, start_date |-> start_date,
             end_date |-> end_date],
         augment_dataframe(original_df, num_rows, start_date, end_date,
                           stdRandom, fakerRandom))

BuildDataset(g, base_df, num_rows, start_date, end_date) ==
  Called(g, [op |-> "build_dataset", original_df |-> base_df,
             num_rows |-> num_rows, start_date |-> start_date,
             end_date |-> end_date],
         build_dataset(base_df, num_rows, start_date, end_date,
                       stdRandom, fakerRandom))

ShipDayChoices == (0 - 1)..MaxShipDays

\* What generate_order_dates hands back: the pair of dates, or the exception.
DatesReturned(r, s) ==
  IF r.status = "ok"
    THEN [status |-> "ok",
          value |-> [order_date |-> r.order_date, ship_date |-> r.ship_date],
          std |-> s, fk |-> r.state]
    ELSE [status |-> r.status, std |-> s, fk |-> r.state]

GenerateOrderDates(g, start_date, end_date, min_ship_days, max_ship_days) ==
  Called(g, [op |-> "generate_order_dates", start_date |-> start_date,
             end_date |-> end_date, min_ship_days |-> min_ship_days,
             max_ship_days |-> max_ship_days],
         DatesReturned(generate_order_dates(start_date, end_date, min_ship_days,
                                            max_ship_days, fakerRandom),
                       stdRandom))

AmountChoices == {10, 20, 2000, 2900}

AmountReturned(r, f) ==
  IF r.status = "ok"
    THEN [status |-> "ok", value |-> r.value, std |-> r.state, fk |-> f]
    ELSE [status |-> r.status, std |-> r.state, fk |-> f]

GenerateSalesAmount(g, min_amount, max_amount) ==
  Called(g, [op |-> "generate_sales_amount", min_amount |-> min_amount,
             max_amount |-> max_amount],
         AmountReturned(generate_sales_amount(min_amount, max_amount, stdRandom),
                        fakerRandom))

NoCall == [op |-> "none"]

NoResult == [status |-> "none"]

Init ==
  /\ stdRandom = 0
  /\ fakerRandom = 0
  /\ fakerLenient \in BOOLEAN
  /\ hashOrder \in {0, 1}
  /\ gen = [g \in Instances |-> NotConstructed]
  /\ calls = [g \in Instances |-> << >>]
  /\ outs = [g \in Instances |-> << >>]
  /\ lastUser = 0
  /\ alone = [g \in Instances |-> FALSE]
  /\ call = NoCall
  /\ ret = NoResult
  /\ df = NoneDf
  /\ summaries = NoResult
  /\ report = NoResult
  /\ pc = "idle"
  /\ written = << >>

\* Whether no call has been made on object g yet.
Fresh(g) == calls[g] = << >>

\* One generator object and the first call a caller makes on it, whichever
\* it is; sequences of calls are the subject of SpecDet.
Next ==
  \/ \E seed \in Seeds : Construct(1, seed)
  \/ Fresh(1) /\ \E original_df \in References, num_rows \in RowCounts, start_date \in Dates, end_date \in Dates : GenerateSyntheticData(1, original_df, num_rows, start_date, end_date)
  \/ Fresh(1) /\ \E original_df \in References, num_rows \in RowCounts, start_date \in Dates, end_date \in Dates : AugmentDataframe(1, original_df, num_rows, start_date, end_date)
  \/ Fresh(1) /\ \E base_df \in References, num_rows \in RowCounts, start_date \in Dates, end_date \in Dates : BuildDataset(1, base_df, num_rows, start_date, end_date)
  \/ Fresh(1) /\ \E start_date \in Dates, end_date \in Dates, min_ship_days \in ShipDayChoices, max_ship_days \in ShipDayChoices : GenerateOrderDates(1, start_date, end_date, min_ship_days, max_ship_days)
  \/ Fresh(1) /\ \E min_amount \in AmountChoices, max_amount \in AmountChoices : GenerateSalesAmount(1, min_amount, max_amount)

Spec == Init /\ [][Next]_vars

\* Two generator objects in one process, each given calls from the same
\* small menu, in every interleaving.  The date range is never inverted
\* here, so the Faker's leniency plays no part, and one process has one
\* iteration order.
DetSeeds == {0, 1}

DetRowCounts == {1, 2}

InitDet == Init /\ ~fakerLenient /\ hashOrder = 0

NextDet ==
  \/ \E g \in Instances, seed \in DetSeeds : Construct(g, seed)
  \/ \E g \in Instances, num_rows \in DetRowCounts : Len(calls[g]) < MaxDetCalls /\ GenerateSyntheticData(g, NoneDf, num_rows, 0, MaxDate)

SpecDet == InitDet /\ [][NextDet]_vars

\* ---------------------------------------------------------------------
\* etl.py: summaries and quality checks of a transformed dataset
\* ---------------------------------------------------------------------

\* Column names after transform, names of summary columns, names of checks.
Norm ==
  [order_id |-> <<"o","r","d","e","r","_","i","d">>,
   customer_id |-> <<"c","u","s","t","o","m","e","r","_","i","d">>,
   sales |-> <<"s","a","l","e","s">>,
   order_date |-> <<"o","r","d","e","r","_","d","a","t","e">>,
   order_year |-> <<"o","r","d","e","r","_","y","e","a","r">>,
   segment |-> <<"s","e","g","m","e","n","t">>,
   region |-> <<"r","e","g","i","o","n">>,
   product_name |-> <<"p","r","o","d","u","c","t","_","n","a","m","e">>,
   rows |-> <<"r","o","w","s">>,
   revenue |-> <<"r","e","v","e","n","u","e">>,
   unique_customers |-> <<"u","n","i","q","u","e","_","c","u","s","t","o","m","e","r","s">>,
   orders |-> <<"o","r","d","e","r","s">>,
   ship_date |-> <<"s","h","i","p","_","d","a","t","e">>,
   postal_code |-> <<"p","o","s","t","a","l","_","c","o","d","e">>,
   order_month |-> <<"o","r","d","e","r","_","m","o","n","t","h">>]

Check ==
  [not_null |-> <<"_","n","o","t","_","n","u","l","l">>,
   sales_positive |-> <<"s","a","l","e","s","_","p","o","s","i","t","i","v","e">>,
   order_year_valid_range |-> <<"o","r","d","e","r","_","y","e","a","r","_","v","a","l","i","d","_","r","a","n","g","e">>,
   overall_success |-> <<"o","v","e","r","a","l","l","_","s","u","c","c","e","s","s">>]

\* The elements of a set of row numbers, smallest first.
Ascending(S) ==
  [k \in 1..Cardinality(S) |-> CHOOSE i \in S : Cardinality({j \in S : j <= i}) = k]

\* The cells of row r in the key columns `by` of a group_by.
KeyOf(d, by, r) == [k \in 1..Len(by) |-> d.rows[r][ColumnIndex(d, by[k])]]

\* The rows where a group key appears for the first time.
FirstRows(d, by) ==
  {r \in 1..Height(d) : \A q \in 1..(r - 1) : KeyOf(d, by, q) # KeyOf(d, by, r)}

KeysAt(d, by, firsts) == [g \in 1..Len(firsts) |-> KeyOf(d, by, firsts[g])]

\* The groups of df.group_by(by), null being a key like any other; the order
\* of the groups is not specified.
GroupKeys(d, by) == Unordered(KeysAt(d, by, Ascending(FirstRows(d, by))))

\* The rows of one group.
Members(d, by, key) == {r \in 1..Height(d) : KeyOf(d, by, r) = key}

\* Expr.sum() over the rows S among the first n: nulls are skipped and a
\* group without values sums to 0.
RECURSIVE SumUpTo(_, _, _)
SumUpTo(cells, S, n) ==
  IF n = 0 THEN 0
  ELSE (IF n \in S /\ ~IsNull(cells[n]) THEN cells[n].float ELSE 0)
       + SumUpTo(cells, S, n - 1)

\* Expr.round(2) of an amount held in thousandths.
Round2(milli) ==
  IF milli >= 0 THEN ((milli + 5) \div 10) * 10
  ELSE 0 - (((0 - milli) + 5) \div 10) * 10

\* pl.col("sales").sum().round(2) of one group.
Revenue(d, S) == FloatV(Round2(SumUpTo(Column(d, Norm.sales), S, Height(d))))

\* pl.count() of one group.
Count(S) == IntV(Cardinality(S))

\* Expr.n_unique() of one group: null counts as a value.
NUnique(cells, S) == IntV(Cardinality({cells[r] : r \in S}))

\* Whether cell a sorts strictly before cell b; nulls come first.
CellBefore(a, b, descending) ==
  IF IsNull(b) THEN FALSE
  ELSE IF IsNull(a) THEN TRUE
  ELSE IF IsInt(a) THEN (IF descending THEN a.int > b.int ELSE a.int < b.int)
  ELSE IF IsFloat(a) THEN (IF descending THEN a.float > b.float ELSE a.float < b.float)
  ELSE IF IsDate(a) THEN (IF descending THEN a.date > b.date ELSE a.date < b.date)
  ELSE (IF descending THEN StrLess(b.str, a.str) ELSE StrLess(a.str, b.str))

\* Whether row x sorts strictly before row y under the sort keys from the
\* k-th on; a key is [at |-> column position, descending |-> flag].
RECURSIVE RowBefore(_, _, _, _)
RowBefore(x, y, keys, k) ==
  IF k > Len(keys) THEN FALSE
  ELSE \/ CellBefore(x[keys[k].at], y[keys[k].at], keys[k].descending)
       \/ /\ ~CellBefore(y[keys[k].at], x[keys[k].at], keys[k].descending)
          /\ RowBefore(x, y, keys, k + 1)

\* The position row i takes when the rows are sorted; rows that compare
\* equal keep the order they came in.
RankOf(rows, keys, i) ==
  1 + Cardinality({j \in 1..Len(rows) :
                     \/ RowBefore(rows[j], rows[i], keys, 1)
                     \/ (j < i /\ ~RowBefore(rows[i], rows[j], keys, 1))})

\* DataFrame.sort(...) on the rows of a frame.
SortRows(rows, keys) ==
  [p \in 1..Len(rows) |-> rows[CHOOSE i \in 1..Len(rows) : RankOf(rows, keys, i) = p]]

\* DataFrame.head(n)
FirstN(rows, n) == SubSeq(rows, 1, IF Len(rows) < n THEN Len(rows) ELSE n)

\* The number of rows kept by .head(15) in top_products.
TopN == 15

ColumnNotFound == [status |-> "ColumnNotFoundError"]

\* summaries[name] = frame
Put(built, name, frame) ==
  [status |-> "ok", value |-> (name :> frame) @@ built.value]

YearlyRows(d, keys) ==
  [g \in 1..Len(keys) |->
     << keys[g][1],
        Count(Members(d, << Norm.order_year >>, keys[g])),
        Revenue(d, Members(d, << Norm.order_year >>, keys[g])),
        NUnique(Column(d, Norm.customer_id), Members(d, << Norm.order_year >>, keys[g])) >>]

\* df.group_by("order_year").agg(rows, revenue, unique_customers).sort("order_year")
Yearly(d) ==
  [columns |-> << Norm.order_year, Norm.rows, Norm.revenue, Norm.unique_customers >>,
   dtypes |-> << DtypeOf(d, Norm.order_year), "UInt32", "Float64", "UInt32" >>,
   rows |-> SortRows(YearlyRows(d, GroupKeys(d, << Norm.order_year >>)),
                     << [at |-> 1, descending |-> FALSE] >>)]

AddYearly(d, built) ==
  IF built.status # "ok" THEN built
  ELSE IF ~HasColumn(d, Norm.order_year) THEN built
  ELSE IF ~(HasColumn(d, Norm.sales) /\ HasColumn(d, Norm.customer_id)) THEN ColumnNotFound
  ELSE Put(built, "yearly", Yearly(d))

SegmentYearlyRows(d, keys) ==
  [g \in 1..Len(keys) |->
     << keys[g][1], keys[g][2],
        Revenue(d, Members(d, << Norm.order_year, Norm.segment >>, keys[g])) >>]

\* df.group_by(["order_year", "segment"]).agg(revenue)
\*   .sort(["order_year", "revenue"], descending=[False, True])
SegmentYearly(d) ==
  [columns |-> << Norm.order_year, Norm.segment, Norm.revenue >>,
   dtypes |-> << DtypeOf(d, Norm.order_year), DtypeOf(d, Norm.segment), "Float64" >>,
   rows |-> SortRows(SegmentYearlyRows(d, GroupKeys(d, << Norm.order_year, Norm.segment >>)),
                     << [at |-> 1, descending |-> FALSE],
                        [at |-> 3, descending |-> TRUE] >>)]

AddSegmentYearly(d, built) ==
  IF built.status # "ok" THEN built
  ELSE IF ~(HasColumn(d, Norm.order_year) /\ HasColumn(d, Norm.segment)) THEN built
  ELSE IF ~HasColumn(d, Norm.sales) THEN ColumnNotFound
  ELSE Put(built, "segment_yearly", SegmentYearly(d))

RegionalRows(d, keys) ==
  [g \in 1..Len(keys) |->
     << keys[g][1], Revenue(d, Members(d, << Norm.region >>, keys[g])) >>]

\* df.group_by("region").agg(revenue).sort("revenue", descending=True)
RegionalRevenue(d) ==
  [columns |-> << Norm.region, Norm.revenue >>,
   dtypes |-> << DtypeOf(d, Norm.region), "Float64" >>,
   rows |-> SortRows(RegionalRows(d, GroupKeys(d, << Norm.region >>)),
                     << [at |-> 2, descending |-> TRUE] >>)]

AddRegionalRevenue(d, built) ==
  IF built.status # "ok" THEN built
  ELSE IF ~HasColumn(d, Norm.region) THEN built
  ELSE IF ~HasColumn(d, Norm.sales) THEN ColumnNotFound
  ELSE Put(built, "regional_revenue", RegionalRevenue(d))

ProductRows(d, keys) ==
  [g \in 1..Len(keys) |->
     << keys[g][1],
        Revenue(d, Members(d, << Norm.product_name >>, keys[g])),
        Count(Members(d, << Norm.product_name >>, keys[g])) >>]

\* TopProductRows without the sort.
TopProductRowsUnsorted(d) ==
  FirstN(ProductRows(d, GroupKeys(d, << Norm.product_name >>)), TopN)

\* group_by("product_name").agg(revenue, orders)
\*   .sort("revenue", descending=True).head(15)
TopProductRows(d) ==
  FirstN(SortRows(ProductRows(d, GroupKeys(d, << Norm.product_name >>)),
                << [at |-> 2, descending |-> TRUE] >>), TopN)

TopProducts(d) ==
  [columns |-> << Norm.product_name, Norm.revenue, Norm.orders >>,
   dtypes |-> << DtypeOf(d, Norm.product_name), "Float64", "UInt32" >>,
   rows |-> TopProductRows(d)]

AddTopProducts(d, built) ==
  IF built.status # "ok" THEN built
  ELSE IF ~HasColumn(d, Norm.product_name) THEN built
  ELSE IF ~HasColumn(d, Norm.sales) THEN ColumnNotFound
  ELSE Put(built, "top_products", TopProducts(d))

\* SalesETL.build_summaries(df): the dict of summary frames, or the error
\* raised while building one of them.
build_summaries(d) ==
  AddTopProducts(d, AddRegionalRevenue(d, AddSegmentYearly(d,
    AddYearly(d, [status |-> "ok", value |-> << >>]))))

\* expect_column_values_to_not_be_null(column).success
NotNull(cells) == \A r \in 1..Len(cells) : ~IsNull(cells[r])

\* A numeric cell in thousandths.
Number(c) == IF IsFloat(c) THEN c.float ELSE c.int * 1000

\* SalesPositive with strict_min left out.
SalesNotNegative(cells) ==
  \A r \in 1..Len(cells) : IsNull(cells[r]) \/ Number(cells[r]) >= 0

\* expect_column_values_to_be_between("sales", min_value=0, strict_min=True)
\* .success: missing values are not counted.
SalesPositive(cells) ==
  \A r \in 1..Len(cells) : IsNull(cells[r]) \/ Number(cells[r]) > 0

\* expect_column_values_to_be_between(column, min_value, max_value).success
Between(cells, min_value, max_value) ==
  \A r \in 1..Len(cells) :
    IsNull(cells[r]) \/ (min_value.int <= cells[r].int /\ cells[r].int <= max_value.int)

\* expectations[key] = success
Expect(expectations, key, success) ==
  [status |-> "ok", value |-> (key :> success) @@ expectations.value]

\* One pass of the loop over order_id, customer_id, sales, order_date.
CheckNotNull(d, column, expectations) ==
  IF ~HasColumn(d, column) THEN expectations
  ELSE Expect(expectations, column \o Check.not_null, NotNull(Column(d, column)))

CheckSalesPositive(d, expectations) ==
  IF ~HasColumn(d, Norm.sales) THEN expectations
  ELSE Expect(expectations, Check.sales_positive, SalesPositive(Column(d, Norm.sales)))

\* The order_year check with its bounds int(min) and int(max); int(None)
\* raises TypeError.
OrderYearInRange(expectations, cells, min_value, max_value) ==
  IF min_value = CastFail \/ max_value = CastFail THEN [status |-> "TypeError"]
  ELSE Expect(expectations, Check.order_year_valid_range, Between(cells, min_value, max_value))

CheckOrderYear(d, expectations) ==
  IF ~HasColumn(d, Norm.order_year) THEN expectations
  ELSE OrderYearInRange(expectations, Column(d, Norm.order_year),
                        PyInt(MinCell(Column(d, Norm.order_year))),
                        PyInt(MaxCell(Column(d, Norm.order_year))))

\* expectations["overall_success"] = all(expectations.values())
Overall(expectations) ==
  IF expectations.status # "ok" THEN expectations
  ELSE Expect(expectations, Check.overall_success,
              \A k \in DOMAIN expectations.value : expectations.value[k])

\* SalesETL.run_quality_checks(df): the dict of check results, or the error
\* raised on the way.
run_quality_checks(d) ==
  Overall(CheckOrderYear(d, CheckSalesPositive(d,
    CheckNotNull(d, Norm.order_date, CheckNotNull(d, Norm.sales,
      CheckNotNull(d, Norm.customer_id, CheckNotNull(d, Norm.order_id,
        [status |-> "ok", value |-> << >>])))))))

\* ---------------------------------------------------------------------
\* Transformed datasets handed to build_summaries and run_quality_checks
\* ---------------------------------------------------------------------

MaxEtlRows == 2

MaxProducts == 17

MaxStep == 3

\* The columns of a transformed dataset that the two operations read.
EtlColumns ==
  << Norm.order_id, Norm.customer_id, Norm.sales, Norm.order_date, Norm.order_year, Norm.segment, Norm.region, Norm.product_name >>

EtlDtypes ==
  << "Utf8", "Utf8", "Float64", "Date", "Int32", "Utf8", "Utf8", "Utf8" >>

\* Rows over EtlColumns: an ordinary order, a refund with no customer, an
\* order with nothing filled in, and a free sample.
EtlRowPool ==
  { << StrV(<<"A","1">>), StrV(<<"c","1">>), FloatV(100004), DateV(1), IntV(2021),
       StrV(<<"H","o","m","e">>), StrV(<<"E","a","s","t">>), StrV(<<"D","e","s","k">>) >>,
    << StrV(<<"A","2">>), Null, FloatV(0 - 5000), DateV(0), IntV(2020),
       StrV(<<"H","o","m","e">>), StrV(<<"W","e","s","t">>), StrV(<<"L","a","m","p">>) >>,
    << Null, Null, Null, Null, Null, Null, Null, Null >>,
    << StrV(<<"A","3">>), StrV(<<"c","1">>), FloatV(0), DateV(1), IntV(2021),
       StrV(<<"C","o","r","p">>), StrV(<<"E","a","s","t">>), StrV(<<"D","e","s","k">>) >> }

\* Two orders of different years, segments, regions and products.
BaseRows ==
  << << StrV(<<"A","1">>), StrV(<<"c","1">>), FloatV(100004), DateV(1), IntV(2021),
        StrV(<<"H","o","m","e">>), StrV(<<"E","a","s","t">>), StrV(<<"D","e","s","k">>) >>,
     << StrV(<<"A","4">>), StrV(<<"c","2">>), FloatV(250000), DateV(0), IntV(2020),
        StrV(<<"C","o","r","p">>), StrV(<<"W","e","s","t">>), StrV(<<"L","a","m","p">>) >> >>

RowLists == UNION {[1..n -> EtlRowPool] : n \in 0..MaxEtlRows}

Take(row, at) == [k \in 1..Len(at) |-> row[at[k]]]

\* The dataset that has only the columns at the positions `at` of EtlColumns.
Project(at, rows) ==
  [columns |-> Take(EtlColumns, at),
   dtypes |-> Take(EtlDtypes, at),
   rows |-> [r \in 1..Len(rows) |-> Take(rows[r], at)]]

\* Every subset of the eight columns, over the same two orders.
ByColumns == {Project(Ascending(S), BaseRows) : S \in SUBSET (1..8)}

\* Every subset of the five checked columns, over every short list of rows.
ByRows == {Project(Ascending(S), rows) : S \in SUBSET (1..5), rows \in RowLists}

ProductNamed(k) == IF k = 0 THEN Null ELSE StrV(<<"p">> \o NatToStr(k))

\* n order lines over products that repeat with period `cycle`, one line in
\* `cycle` having no product name; amounts repeat with period 7 and include
\* refunds and equal amounts.
ProductLines(n, step, cycle) ==
  [columns |-> << Norm.product_name, Norm.sales >>,
   dtypes |-> << "Utf8", "Float64" >>,
   rows |-> [i \in 1..n |->
               << ProductNamed(i % cycle), FloatV(1000 * ((step * i) % 7) - 2000) >>]]

ByProducts ==
  {ProductLines(n, step, cycle) :
     n \in 0..MaxProducts, step \in 1..MaxStep, cycle \in {3, MaxProducts + 3}}

EtlInputs == ByColumns \cup ByRows \cup ByProducts

\* etl.build_summaries(df)
BuildSummaries ==
  /\ summaries = NoResult
  /\ summaries' = build_summaries(df)
  /\ UNCHANGED << stdRandom, fakerRandom, fakerLenient, hashOrder, gen, calls, outs,
                  lastUser, alone, call, ret, df, report, pc, written >>

\* etl.run_quality_checks(df)
RunQualityChecks ==
  /\ report = NoResult
  /\ report' = run_quality_checks(df)
  /\ UNCHANGED << stdRandom, fakerRandom, fakerLenient, hashOrder, gen, calls, outs,
                  lastUser, alone, call, ret, df, summaries, pc, written >>

InitEtl ==
  /\ stdRandom = 0
  /\ fakerRandom = 0
  /\ fakerLenient = FALSE
  /\ hashOrder \in {0, 1}
  /\ gen = [g \in Instances |-> NotConstructed]
  /\ calls = [g \in Instances |-> << >>]
  /\ outs = [g \in Instances |-> << >>]
  /\ lastUser = 0
  /\ alone = [g \in Instances |-> FALSE]
  /\ call = NoCall
  /\ ret = NoResult
  /\ df \in EtlInputs
  /\ summaries = NoResult
  /\ report = NoResult
  /\ pc = "idle"
  /\ written = << >>

NextEtl == BuildSummaries \/ RunQualityChecks

\* A transformed dataset handed to the two reporting operations.
SpecEtl == InitEtl /\ [][NextEtl]_vars

\* ---------------------------------------------------------------------
\* etl.py: transform
\* ---------------------------------------------------------------------

\* str.strip(): blanks off both ends.
RECURSIVE Strip(_)
Strip(s) ==
  IF Len(s) > 0 /\ s[1] = " " THEN Strip(Tail(s))
  ELSE IF Len(s) > 0 /\ s[Len(s)] = " " THEN Strip(SubSeq(s, 1, Len(s) - 1))
  ELSE s

\* str.replace(old, new) for single characters.
Replace(s, old, new) == [i \in 1..Len(s) |-> IF s[i] = old THEN new ELSE s[i]]

\* col.strip().lower().replace(" ", "_").replace("-", "_")
NormalizeName(col) == Replace(Replace(Lower(Strip(col)), " ", "_"), "-", "_")

\* df.rename(rename_map): two columns may not end up with one name.
Rename(d) ==
  IF \E i \in 1..Len(d.columns) : \E j \in 1..Len(d.columns) :
       i # j /\ NormalizeName(d.columns[i]) = NormalizeName(d.columns[j])
    THEN [status |-> "DuplicateError"]
    ELSE [status |-> "ok",
          value |-> [d EXCEPT !.columns =
                       [k \in 1..Len(d.columns) |-> NormalizeName(d.columns[k])]]]

\* pl.col(name).cast(dtype): strict, so one value without an image raises.
StrictCast(d, name, dtype) ==
  IF \E r \in 1..Height(d) : CastCell(Column(d, name)[r], dtype) = CastFail
    THEN [status |-> "InvalidOperationError"]
    ELSE [status |-> "ok", dtype |-> dtype,
          cells |-> [r \in 1..Height(d) |-> CastCell(Column(d, name)[r], dtype)]]

\* pl.col(name).dt.year() and .dt.month(), of the column as it is before the
\* casts of the same with_columns call; only a temporal column has the dt
\* namespace.
DtPart(d, name, part) ==
  IF DtypeOf(d, name) # "Date" THEN [status |-> "InvalidOperationError"]
  ELSE [status |-> "ok", dtype |-> IF part = "year" THEN "Int32" ELSE "Int8",
        cells |-> [r \in 1..Height(d) |->
                     IF IsNull(Column(d, name)[r]) THEN Null
                     ELSE IF part = "year" THEN IntV(Year(Column(d, name)[r].date))
                     ELSE IntV(Month(Column(d, name)[r].date))]]

\* A frame with column `name` put at position k.
PutColumn(d, k, name, col) ==
  [columns |-> (k :> name) @@ d.columns,
   dtypes |-> (k :> col.dtype) @@ d.dtypes,
   rows |-> [r \in 1..Height(d) |-> (k :> col.cells[r]) @@ d.rows[r]]]

\* SetColumn that always adds the column at the end.
SetColumnAppending(d, name, col) == PutColumn(d, Len(d.columns) + 1, name, col)

\* One output of with_columns: a column of that name is replaced where it
\* stands, a new one is added at the end.
SetColumn(d, name, col) ==
  IF HasColumn(d, name) THEN PutColumn(d, ColumnIndex(d, name), name, col)
  ELSE PutColumn(d, Len(d.columns) + 1, name, col)

\* The frame built so far with one more output, or the error raised.
With(acc, name, col) ==
  IF acc.status # "ok" THEN acc
  ELSE IF col.status # "ok" THEN [status |-> col.status]
  ELSE [status |-> "ok", value |-> SetColumn(acc.value, name, col)]

\* if "order_date" in transformed.columns: the cast and the two derived
\* columns, all evaluated on the renamed frame d.
CastOrderDate(d, acc) ==
  IF ~HasColumn(d, Norm.order_date) THEN acc
  ELSE With(With(With(acc, Norm.order_date, StrictCast(d, Norm.order_date, "Date")),
                 Norm.order_year, DtPart(d, Norm.order_date, "year")),
            Norm.order_month, DtPart(d, Norm.order_date, "month"))

\* if name in transformed.columns: with_columns.append(pl.col(name).cast(dtype))
CastIfPresent(d, acc, name, dtype) ==
  IF ~HasColumn(d, name) THEN acc ELSE With(acc, name, StrictCast(d, name, dtype))

\* transformed.with_columns(with_columns)
WithColumns(renamed) ==
  IF renamed.status # "ok" THEN renamed
  ELSE CastIfPresent(renamed.value,
         CastIfPresent(renamed.value,
           CastIfPresent(renamed.value, CastOrderDate(renamed.value, renamed),
                         Norm.ship_date, "Date"),
           Norm.sales, "Float64"),
         Norm.postal_code, "Utf8")

\* SalesETL.transform(df): the transformed frame, or the error raised.
transform(d) == WithColumns(Rename(d))

\* ---------------------------------------------------------------------
\* Merged datasets handed to transform
\* ---------------------------------------------------------------------

MaxTransforms == 2

\* A column beside the ones transform casts: a year column already there,
\* ship dates, or a second spelling of the sales column.
ExtraVariants ==
  { [name |-> <<"o","r","d","e","r","_","y","e","a","r">>, dtype |-> "Utf8", cells |-> << StrV(<<"x">>), StrV(<<"y">>) >>],
    [name |-> <<"S","h","i","p"," ","D","a","t","e">>, dtype |-> "Date", cells |-> << DateV(2), Null >>],
    [name |-> <<"S","h","i","p","-","D","a","t","e">>, dtype |-> "Utf8", cells |-> << StrV(<<"2","0","2","1","-","0","1","-","0","9">>), StrV(<<"l","a","t","e">>) >>],
    [name |-> <<"S","A","L","E","S">>, dtype |-> "Float64", cells |-> << FloatV(1000), FloatV(2000) >>] }

\* Order dates as dates, as ISO text, as text with a value that is no date, and
\* as day numbers.
OrderDateVariants ==
  { [name |-> <<"O","r","d","e","r"," ","D","a","t","e">>, dtype |-> "Date", cells |-> << DateV(1), Null >>],
    [name |-> <<"o","r","d","e","r","_","d","a","t","e">>, dtype |-> "Utf8", cells |-> << StrV(<<"2","0","2","1","-","0","1","-","0","5">>), StrV(<<"2","0","2","0","-","1","2","-","3","1">>) >>],
    [name |-> <<" ","O","r","d","e","r"," ","D","a","t","e"," ">>, dtype |-> "Utf8", cells |-> << StrV(<<"2","0","2","1","-","0","1","-","0","5">>), StrV(<<"s","o","o","n">>) >>],
    [name |-> <<"O","R","D","E","R","-","D","A","T","E">>, dtype |-> "Int64", cells |-> << IntV(18627), IntV(18628) >>] }

\* Sales as floats, as text with a value that is no number, and as integers.
SalesVariants ==
  { [name |-> <<"S","a","l","e","s">>, dtype |-> "Float64", cells |-> << FloatV(100004), FloatV(0 - 5000) >>],
    [name |-> <<"s","a","l","e","s">>, dtype |-> "Utf8", cells |-> << StrV(<<"1","2",".","5">>), StrV(<<"a","b","c">>) >>],
    [name |-> <<"S","a","l","e","s"," ">>, dtype |-> "Int64", cells |-> << IntV(20), Null >>] }

\* Postal codes as integers, as text with a leading zero, and as floats.
PostalCodeVariants ==
  { [name |-> <<"P","o","s","t","a","l"," ","C","o","d","e">>, dtype |-> "Int64", cells |-> << IntV(2116), IntV(42420) >>],
    [name |-> <<"P","o","s","t","a","l","-","C","o","d","e">>, dtype |-> "Utf8", cells |-> << StrV(<<"0","2","1","1","6">>), StrV(<<"4","2","4","2","0">>) >>],
    [name |-> <<"p","o","s","t","a","l"," ","c","o","d","e">>, dtype |-> "Float64", cells |-> << FloatV(2116000), Null >>] }

\* The two-row frame made of the chosen columns, in the order given.
FrameOf(chosen) ==
  [columns |-> [k \in 1..Len(chosen) |-> chosen[k].name],
   dtypes |-> [k \in 1..Len(chosen) |-> chosen[k].dtype],
   rows |-> IF Len(chosen) = 0 THEN << >>
            ELSE [r \in 1..2 |-> [k \in 1..Len(chosen) |-> chosen[k].cells[r]]]]

\* At most one column of each kind.
OneOrNone(variants) == {<< v >> : v \in variants} \cup {<< >>}

TransformInputs ==
  {FrameOf(a \o b \o c \o e) :
     a \in OneOrNone(ExtraVariants), b \in OneOrNone(OrderDateVariants),
     c \in OneOrNone(SalesVariants), e \in OneOrNone(PostalCodeVariants)}

\* etl.transform(df), the caller keeping what it returns.
Transform ==
  /\ Len(calls[1]) < MaxTransforms
  /\ ret.status \in {"none", "ok"}
  /\ call' = [op |-> "transform", df |-> df]
  /\ ret' = transform(df)
  /\ df' = IF transform(df).status = "ok" THEN transform(df).value ELSE df
  /\ calls' = [calls EXCEPT ![1] = Append(@, [op |-> "transform", df |-> df])]
  /\ outs' = [outs EXCEPT ![1] = Append(@, transform(df))]
  /\ UNCHANGED << stdRandom, fakerRandom, fakerLenient, hashOrder, gen, lastUser,
                  alone, summaries, report, pc, written >>

InitTransform ==
  /\ stdRandom = 0
  /\ fakerRandom = 0
  /\ fakerLenient = FALSE
  /\ hashOrder = 0
  /\ gen = [g \in Instances |-> NotConstructed]
  /\ calls = [g \in Instances |-> << >>]
  /\ outs = [g \in Instances |-> << >>]
  /\ lastUser = 0
  /\ alone = [g \in Instances |-> FALSE]
  /\ call = NoCall
  /\ ret = NoResult
  /\ df \in TransformInputs
  /\ summaries = NoResult
  /\ report = NoResult
  /\ pc = "idle"
  /\ written = << >>

\* A merged dataset transformed, and the result transformed again.
SpecTransform == InitTransform /\ [][Transform]_vars

(***************************************************************************)
(* SalesETL.run: the stages in sequence, then the writes one at a time.    *)
(* A file is [file, name], a warehouse table is [table, name]; the sink    *)
(* accepts or rejects each write.                                          *)
(***************************************************************************)

\* persist_outputs with the quality report written ahead of the dataset.
persist_outputs_report_first(built) ==
  << [file |-> "quality_report.json", name |-> "quality_report"],
     [file |-> "sales_enriched.parquet", name |-> "sales_enriched"] >>
  \o [i \in 1..Len(SelectSeq(<< "yearly", "segment_yearly", "regional_revenue", "top_products" >>, LAMBDA n : n \in DOMAIN built)) |->
        [file |-> "csv", name |-> SelectSeq(<< "yearly", "segment_yearly", "regional_revenue", "top_products" >>, LAMBDA n : n \in DOMAIN built)[i]]]

\* SalesETL.persist_outputs(df, summaries, quality_results): the files it
\* writes, in order.  summaries.items() yields the summaries in the order
\* build_summaries inserted them.
persist_outputs(built) ==
  << [file |-> "sales_enriched.parquet", name |-> "sales_enriched"] >>
  \o [i \in 1..Len(SelectSeq(<< "yearly", "segment_yearly", "regional_revenue", "top_products" >>, LAMBDA n : n \in DOMAIN built)) |->
        [file |-> "csv", name |-> SelectSeq(<< "yearly", "segment_yearly", "regional_revenue", "top_products" >>, LAMBDA n : n \in DOMAIN built)[i]]]
  \o << [file |-> "quality_report.json", name |-> "quality_report"] >>

\* SalesETL.load_into_warehouse(df, summaries): the tables it creates, in
\* order.
load_into_warehouse(built) ==
  << [table |-> "analytics.sales", name |-> "sales"] >>
  \o [i \in 1..Len(SelectSeq(<< "yearly", "segment_yearly", "regional_revenue", "top_products" >>, LAMBDA n : n \in DOMAIN built)) |->
        [table |-> "analytics.summary", name |-> SelectSeq(<< "yearly", "segment_yearly", "regional_revenue", "top_products" >>, LAMBDA n : n \in DOMAIN built)[i]]]

\* The stages of SalesETL.run on a new SalesETL, whose generator is
\* SyntheticDataGenerator() with the default seed 42.  base_df is what
\* load_base_dataset returned; the dates are the keyword arguments passed
\* through to the generator.  A stage that raises ends the run.  Each
\* stage is recorded with what it returned or raised.
run ==
  /\ \/ \E base_df \in References, num_synthetic_rows \in RowCounts, start_date \in Dates, end_date \in Dates :
        /\ pc = "idle"
        /\ gen' = [gen EXCEPT ![1] = [constructed |-> TRUE, seed |-> 42]]
        /\ stdRandom' = build_dataset(base_df, num_synthetic_rows, start_date, end_date, Seeded(42), Seeded(42)).std
        /\ fakerRandom' = build_dataset(base_df, num_synthetic_rows, start_date, end_date, Seeded(42), Seeded(42)).fk
        /\ lastUser' = 1
        /\ alone' = [alone EXCEPT ![1] = TRUE]
        /\ call' = [op |-> "build_dataset", original_df |-> base_df, num_rows |-> num_synthetic_rows, start_date |-> start_date, end_date |-> end_date]
        /\ ret' = Returned(build_dataset(base_df, num_synthetic_rows, start_date, end_date, Seeded(42), Seeded(42)))
        /\ pc' = IF ret'.status = "ok" THEN "transform" ELSE "raised"
        /\ UNCHANGED << df, summaries, report >>
     \/ /\ pc = "transform"
        /\ call' = [op |-> "transform"]
        /\ ret' = transform(ret.value)
        /\ df' = IF ret'.status = "ok" THEN ret'.value ELSE df
        /\ pc' = IF ret'.status = "ok" THEN "build_summaries" ELSE "raised"
        /\ UNCHANGED << stdRandom, fakerRandom, gen, lastUser, alone, summaries, report >>
     \/ /\ pc = "build_summaries"
        /\ call' = [op |-> "build_summaries"]
        /\ ret' = build_summaries(df)
        /\ summaries' = ret'
        /\ pc' = IF ret'.status = "ok" THEN "run_quality_checks" ELSE "raised"
        /\ UNCHANGED << stdRandom, fakerRandom, gen, lastUser, alone, df, report >>
     \/ /\ pc = "run_quality_checks"
        /\ call' = [op |-> "run_quality_checks"]
        /\ ret' = run_quality_checks(df)
        /\ report' = ret'
        /\ pc' = IF ret'.status = "ok" THEN "persist_outputs" ELSE "raised"
        /\ UNCHANGED << stdRandom, fakerRandom, gen, lastUser, alone, df, summaries >>
  /\ calls' = [calls EXCEPT ![1] = Append(@, call')]
  /\ outs' = [outs EXCEPT ![1] = Append(@, ret')]
  /\ UNCHANGED << fakerLenient, hashOrder, written >>

\* One write of persist_outputs or load_into_warehouse.  A rejected write
\* raises out of run; an accepted one is followed by the next write, and
\* after the last table run returns the transformed dataset.
WriteOutput(accepted) ==
  /\ pc \in {"persist_outputs", "load_into_warehouse"}
  /\ call' = [op |-> "write", output |-> (persist_outputs(summaries.value) \o load_into_warehouse(summaries.value))[Len(written) + 1]]
  /\ written' = IF accepted THEN Append(written, call'.output) ELSE written
  /\ pc' = IF ~accepted THEN "raised"
           ELSE IF Len(written') = Len(persist_outputs(summaries.value) \o load_into_warehouse(summaries.value)) THEN "returned"
           ELSE IF Len(written') >= Len(persist_outputs(summaries.value)) THEN "load_into_warehouse"
           ELSE "persist_outputs"
  /\ ret' = IF ~accepted THEN [status |-> "OSError"]
            ELSE IF pc' = "returned" THEN [status |-> "ok", value |-> df]
            ELSE [status |-> "ok"]
  /\ calls' = [calls EXCEPT ![1] = Append(@, call')]
  /\ outs' = [outs EXCEPT ![1] = Append(@, ret')]
  /\ UNCHANGED << stdRandom, fakerRandom, fakerLenient, hashOrder, gen, lastUser, alone, df, summaries, report >>

NextRun ==
  \/ run
  \/ \E accepted \in BOOLEAN : WriteOutput(accepted)

\* One run of the pipeline in a new process.
SpecRun == Init /\ [][NextRun]_vars

(***************************************************************************)
(* Properties of the generator.                                            *)
(***************************************************************************)
NonEmptyRef(d) == ~IsNone(d) /\ Height(d) > 0

AllDistinct(cells) ==
  \A i \in 1..Len(cells) : \A j \in 1..Len(cells) : cells[i] = cells[j] => i = j

AllInts(cells) == \A i \in 1..Len(cells) : IsInt(cells[i])

\* The greatest of a non-empty sequence of integer cells.
IntMax(cells) ==
  CHOOSE m \in {cells[i].int : i \in 1..Len(cells)} :
    \A i \in 1..Len(cells) : cells[i].int <= m

\* The column that holds a dataset's row identifiers, however it is spelled.
RowIdName(d) == IF HasColumn(d, Col.RowID) THEN Col.RowID ELSE nRowId

Generated == call.op = "generate_synthetic_data" /\ ret.status = "ok"

Augmented ==
  /\ call.op \in {"augment_dataframe", "build_dataset"}
  /\ NonEmptyRef(call.original_df)
  /\ ret.status = "ok"

\* C1: generate_synthetic_data returns exactly num_rows rows whose Row ID
\* values, in output order, are S, S+1, ..., S+num_rows-1 with no gap, no
\* duplicate and no reordering, and S = 1 when no non-empty reference is
\* supplied.
C1_RowIdsContiguous ==
  Generated =>
    /\ Height(ret.value) = call.num_rows
    /\ \A i \in 1..call.num_rows :
         /\ IsInt(Column(ret.value, Col.RowID)[i])
         /\ Column(ret.value, Col.RowID)[i].int
              = Column(ret.value, Col.RowID)[1].int + (i - 1)
         /\ ~NonEmptyRef(call.original_df) => Column(ret.value, Col.RowID)[i].int = i

C1_Witness ==
  /\ Generated
  /\ call.original_df = RefStd
  /\ call.num_rows = 2
  /\ Column(ret.value, Col.RowID) = << IntV(8), IntV(9) >>

\* C2 as claimed: for every non-empty reference with unique row identifiers,
\* whatever the spelling of its row-id column and whether or not its maximum
\* can be computed, the dataset augment_dataframe returns has unique row
\* identifiers and the first synthetic row's identifier is the reference's
\* maximum + 1.
C2_AnySpelling ==
  (Augmented /\ AllDistinct(Column(call.original_df, RowIdName(call.original_df)))) =>
    /\ AllDistinct(Column(ret.value, RowIdName(call.original_df)))
    /\ call.num_rows >= 1 =>
         /\ AllInts(Column(call.original_df, RowIdName(call.original_df)))
         /\ Column(ret.value, RowIdName(call.original_df))[Height(call.original_df) + 1]
              = IntV(IntMax(Column(call.original_df, RowIdName(call.original_df))) + 1)

\* C2 amended: the same, for a reference whose row identifiers are unique
\* integers held in a column named exactly "Row ID".
C2_RowIdColumn ==
  (/\ Augmented
   /\ HasColumn(call.original_df, Col.RowID)
   /\ AllInts(Column(call.original_df, Col.RowID))
   /\ AllDistinct(Column(call.original_df, Col.RowID))) =>
    /\ AllDistinct(Column(ret.value, Col.RowID))
    /\ call.num_rows >= 1 =>
         Column(ret.value, Col.RowID)[Height(call.original_df) + 1]
           = IntV(IntMax(Column(call.original_df, Col.RowID)) + 1)

C2_Witness ==
  /\ Augmented
  /\ call.op = "augment_dataframe"
  /\ call.original_df = RefStd
  /\ call.num_rows = 2
  /\ Column(ret.value, Col.RowID) = << IntV(7), IntV(5), IntV(8), IntV(9) >>

\* What C3 asks of one record.
DatesInRange(order_date, ship_date, start_date, end_date, min_ship_days, max_ship_days) ==
  /\ ship_date >= order_date
  /\ start_date <= order_date /\ order_date <= end_date
  /\ min_ship_days <= ship_date - order_date
  /\ ship_date - order_date <= max_ship_days

\* C3: for every record generate_order_dates or
\* generate_synthetic_data produces, ship_date >= order_date, order_date lies
\* in [start_date, end_date] and ship_date - order_date lies in
\* [min_ship_days, max_ship_days] (1 and 14 by default).
C3_ShipAfterOrder ==
  /\ (call.op = "generate_order_dates" /\ ret.status = "ok") =>
       DatesInRange(ret.value.order_date, ret.value.ship_date, call.start_date,
                    call.end_date, call.min_ship_days, call.max_ship_days)
  /\ Generated =>
       \A i \in 1..Height(ret.value) :
         DatesInRange(Column(ret.value, Col.OrderDate)[i].date,
                      Column(ret.value, Col.ShipDate)[i].date,
                      call.start_date, call.end_date, 1, 14)

C5_ReferenceThenSynthetic ==
  (Augmented /\ call.op = "augment_dataframe") =>
    /\ Height(ret.value) = Height(call.original_df) + call.num_rows
    /\ ret.value.columns = call.original_df.columns
    /\ ret.value.dtypes = call.original_df.dtypes
    /\ SubSeq(ret.value.rows, 1, Height(call.original_df)) = call.original_df.rows
    /\ HasColumn(call.original_df, Col.RowID) =>
         \A i \in 1..call.num_rows : \A j \in 1..call.num_rows :
           (i < j /\ AllInts(Column(ret.value, Col.RowID))) =>
             Column(ret.value, Col.RowID)[Height(call.original_df) + i].int
               < Column(ret.value, Col.RowID)[Height(call.original_df) + j].int

\* C6: augmenting an empty or absent reference with M synthetic rows (over a
\* date range that is not inverted) raises nothing and yields exactly M rows
\* under the synthetic schema, through augment_dataframe and through
\* build_dataset alike.
C6_EmptyReference ==
  (/\ call.op \in {"augment_dataframe", "build_dataset"}
   /\ ~NonEmptyRef(call.original_df)
   /\ call.start_date <= call.end_date) =>
    /\ ret.status = "ok"
    /\ Height(ret.value) = call.num_rows
    /\ call.num_rows >= 1 => ret.value.columns = SyntheticColumns

\* Whether the last call was given an inverted range.
InvertedRange ==
  \/ /\ call.op \in {"generate_synthetic_data", "augment_dataframe",
                     "build_dataset", "generate_order_dates"}
     /\ call.start_date > call.end_date
  \/ /\ call.op = "generate_order_dates"
     /\ call.min_ship_days > call.max_ship_days
  \/ /\ call.op = "generate_sales_amount"
     /\ call.min_amount > call.max_amount

\* C7: a generating call given an inverted range (start_date >
\* end_date, min_ship_days > max_ship_days, min_amount > max_amount) fails,
\* and returns no dataset.
C7_InvertedRangeFails == InvertedRange => ret.status \notin {"ok"}

(***************************************************************************)
(* Properties of the summaries and the quality checks.                     *)
(***************************************************************************)
SummaryNames == {"yearly", "segment_yearly", "regional_revenue", "top_products"}

\* The columns a summary reads.
Reads(name) ==
  CASE name = "yearly" -> {Norm.order_year, Norm.sales, Norm.customer_id}
    [] name = "segment_yearly" -> {Norm.order_year, Norm.segment, Norm.sales}
    [] name = "regional_revenue" -> {Norm.region, Norm.sales}
    [] name = "top_products" -> {Norm.product_name, Norm.sales}

\* C8: whichever of order_year, segment, region, product_name, sales and
\* customer_id are absent from the dataset, build_summaries returns without
\* raising, and each of the four summaries is in the result exactly when
\* every column it reads is present.
C8_OmittedNotErrored ==
  summaries # NoResult =>
    /\ summaries.status = "ok"
    /\ \A name \in SummaryNames :
         name \in DOMAIN summaries.value <=> \A c \in Reads(name) : HasColumn(df, c)

\* The names of the checks, each with the column it needs.
CheckColumn ==
  (Norm.order_id \o Check.not_null :> Norm.order_id) @@ (Norm.customer_id \o Check.not_null :> Norm.customer_id)
    @@ (Norm.sales \o Check.not_null :> Norm.sales) @@ (Norm.order_date \o Check.not_null :> Norm.order_date)
    @@ (Check.sales_positive :> Norm.sales) @@ (Check.order_year_valid_range :> Norm.order_year)

HasSaleAtMostZero(d) ==
  /\ HasColumn(d, Norm.sales)
  /\ \E r \in 1..Height(d) : IsFloat(Column(d, Norm.sales)[r]) /\ Column(d, Norm.sales)[r].float <= 0

\* C9: in the report run_quality_checks returns, overall_success is the
\* conjunction of exactly the checks that were run; the checks in the report
\* are those whose column is present; and a dataset with a row whose sales
\* are <= 0 has sales_positive = false and overall_success = false.
C9_OverallIsConjunction ==
  report.status = "ok" =>
    /\ DOMAIN report.value =
         {k \in DOMAIN CheckColumn : HasColumn(df, CheckColumn[k])} \cup {Check.overall_success}
    /\ report.value[Check.overall_success] =
         (\A k \in DOMAIN report.value \ {Check.overall_success} : report.value[k])
    /\ HasSaleAtMostZero(df) =>
         ~report.value[Check.sales_positive] /\ ~report.value[Check.overall_success]

\* A free sample (sales = 0) alone among rows that pass every other check.
C9_Witness ==
  /\ report.status = "ok"
  /\ HasColumn(df, Norm.sales) /\ ~HasColumn(df, Norm.order_date)
  /\ HasSaleAtMostZero(df)
  /\ \A r \in 1..Height(df) : Column(df, Norm.sales)[r] \in {FloatV(0), FloatV(100004)}
  /\ report.value[Norm.sales \o Check.not_null]
  /\ ~report.value[Check.sales_positive]
  /\ ~report.value[Check.overall_success]

\* The product names of a dataset, a missing name being one of them.
NamesOfProducts(d) == {Column(d, Norm.product_name)[r] : r \in 1..Height(d)}

\* The revenue of one product: the rounded sum of its sales.
RevenueOf(d, name) ==
  Round2(SumUpTo(Column(d, Norm.sales),
                 {r \in 1..Height(d) : Column(d, Norm.product_name)[r] = name}, Height(d)))

Smaller(a, b) == IF a < b THEN a ELSE b

\* C10: for a dataset with a product_name column, top_products has
\* min(15, number of distinct product names) rows, each a different product
\* with its revenue, in order of revenue descending, and no product left out
\* has more revenue than a product kept.
C10_TopFifteenByRevenue ==
  (summaries.status = "ok" /\ "top_products" \in DOMAIN summaries.value) =>
    /\ Height(summaries.value["top_products"]) = Smaller(15, Cardinality(NamesOfProducts(df)))
    /\ \A i \in 1..Height(summaries.value["top_products"]) :
         /\ summaries.value["top_products"].rows[i][1] \in NamesOfProducts(df)
         /\ summaries.value["top_products"].rows[i][2]
              = FloatV(RevenueOf(df, summaries.value["top_products"].rows[i][1]))
         /\ \A j \in 1..Height(summaries.value["top_products"]) :
              /\ i < j => summaries.value["top_products"].rows[i][2].float
                            >= summaries.value["top_products"].rows[j][2].float
              /\ i # j => summaries.value["top_products"].rows[i][1]
                            # summaries.value["top_products"].rows[j][1]
         /\ \A name \in NamesOfProducts(df) :
              (\A j \in 1..Height(summaries.value["top_products"]) :
                 summaries.value["top_products"].rows[j][1] # name)
              => RevenueOf(df, name) <= summaries.value["top_products"].rows[i][2].float

\* More than fifteen products, so that some are left out, among them one
\* whose revenue equals that of a product kept.
C10_Witness ==
  /\ summaries.status = "ok" /\ "top_products" \in DOMAIN summaries.value
  /\ Cardinality(NamesOfProducts(df)) > 15
  /\ Height(summaries.value["top_products"]) = 15
  /\ \E name \in NamesOfProducts(df) :
       /\ \A j \in 1..15 : summaries.value["top_products"].rows[j][1] # name
       /\ RevenueOf(df, name) = summaries.value["top_products"].rows[15][2].float
  /\ summaries.value["top_products"].rows[1][2].float
       > summaries.value["top_products"].rows[15][2].float

(***************************************************************************)
(* Properties of transform and of the whole run.                           *)
(***************************************************************************)
\* C11: transform is idempotent: when transform accepts a dataset, it accepts
\* its own result too and returns it unchanged in column names, column types
\* and row values.
C11_TransformIdempotent ==
  \A n \in 2..Len(outs[1]) :
    (calls[1][n].op = "transform" /\ outs[1][n - 1].status = "ok") =>
      /\ outs[1][n].status = "ok"
      /\ outs[1][n].value.columns = outs[1][n - 1].value.columns
      /\ outs[1][n].value.dtypes = outs[1][n - 1].value.dtypes
      /\ outs[1][n].value.rows = outs[1][n - 1].value.rows

\* A dataset whose names, dates, sales and postal codes the first transform
\* all changed, transformed twice.
C11_Witness ==
  /\ Len(outs[1]) = 2
  /\ calls[1][1].op = "transform"
  /\ outs[1][1].status = "ok" /\ outs[1][2].status = "ok"
  /\ calls[1][1].df.columns =
       << <<"o","r","d","e","r","_","y","e","a","r">>,
          <<"O","r","d","e","r"," ","D","a","t","e">>,
          <<"S","a","l","e","s"," ">>,
          <<"P","o","s","t","a","l"," ","C","o","d","e">> >>
  /\ outs[1][1].value.columns =
       << Norm.order_year, Norm.order_date, Norm.sales, Norm.postal_code,
          Norm.order_month >>
  /\ outs[1][1].value.dtypes = << "Int32", "Date", "Float64", "Utf8", "Int8" >>
  /\ outs[1][1].value.rows[1] =
       << IntV(2021), DateV(1), FloatV(20000), StrV(<<"2","1","1","6">>), IntV(1) >>
  /\ outs[1][2].value = outs[1][1].value

\* The columns transform casts, each with its target type.
CastTargets ==
  (Norm.order_date :> "Date") @@ (Norm.ship_date :> "Date")
    @@ (Norm.sales :> "Float64") @@ (Norm.postal_code :> "Utf8")

\* C12: the casts of transform and the derivation of order_year and
\* order_month are non-strict: whatever the values of a dataset (whose column
\* names stay distinct once normalized), transform raises nothing, and a cell
\* whose value cannot be cast is null in the result.
C12_CastsNonStrict ==
  (/\ call.op = "transform"
   /\ \A i \in 1..Len(call.df.columns) : \A j \in 1..Len(call.df.columns) :
        i # j => NormalizeName(call.df.columns[i]) # NormalizeName(call.df.columns[j])) =>
    /\ ret.status = "ok"
    /\ \A k \in 1..Len(call.df.columns) :
         NormalizeName(call.df.columns[k]) \in DOMAIN CastTargets =>
           \A r \in 1..Height(call.df) :
             ret.value.rows[r][k] =
               CastLax(call.df.rows[r][k],
                       CastTargets[NormalizeName(call.df.columns[k])])

\* The dataset a run's build_dataset call c fabricated, before any alignment
\* to the reference.
Fabricated(c) ==
  generate_synthetic_data(IF IsNone(c.original_df) \/ Height(c.original_df) = 0
                            THEN NoneDf ELSE c.original_df,
                          c.num_rows, c.start_date, c.end_date,
                          Seeded(42), Seeded(42)).value

\* A generated postal code: a city's zip prefix followed by two digits.
IsPostalCode(c) ==
  /\ IsStr(c)
  /\ Len(c.str) = 5
  /\ \E k \in 1..Len(US_CITIES) : SubSeq(c.str, 1, 3) = US_CITIES[k].zip_prefix
  /\ AllDigits(SubSeq(c.str, 4, 5))

\* C13: postal codes keep their leading zeros through the pipeline: in the
\* output of transform, the postal_code of every synthetic row is the
\* five-character text generated for it (its city's zip prefix followed by
\* two digits), whatever the schema of the reference dataset.
C13_PostalCodesKeepZeros ==
  (/\ call.op = "transform"
   /\ ret.status = "ok"
   /\ calls[1][1].op = "build_dataset"
   /\ HasColumn(ret.value, Norm.postal_code)) =>
    \A i \in 1..calls[1][1].num_rows :
      /\ IsPostalCode(Column(Fabricated(calls[1][1]), Col.PostalCode)[i])
      /\ Column(ret.value, Norm.postal_code)[Height(ret.value) - calls[1][1].num_rows + i]
           = Column(Fabricated(calls[1][1]), Col.PostalCode)[i]

\* The stages of run that come before any output.
Stages == {"build_dataset", "transform", "build_summaries", "run_quality_checks"}

\* Every stage of the run has been called and has returned.
StagesCompleted ==
  \A stage \in Stages :
    \E i \in 1..Len(calls[1]) : calls[1][i].op = stage /\ outs[1][i].status = "ok"

\* The place of an output in the order sales_enriched, summaries,
\* quality_report, warehouse.
Place(output) ==
  IF "table" \in DOMAIN output THEN 4
  ELSE IF output.file = "sales_enriched.parquet" THEN 1
  ELSE IF output.file = "quality_report.json" THEN 3
  ELSE 2

\* No output twice, and none ahead of one whose place is earlier.
InOrder(w) ==
  \A i \in 1..Len(w) : \A j \in 1..Len(w) :
    i < j => w[i] # w[j] /\ Place(w[i]) <= Place(w[j])

\* C14: in SalesETL.run nothing is written unless build_dataset, transform,
\* build_summaries and run_quality_checks have all completed without error;
\* the writes happen in the order sales_enriched, summaries, quality_report,
\* warehouse; a rejected write raises out of run, leaves what was already
\* written in place, and no write is attempted after an error.
C14_WritesLastInOrderNoRollback ==
  [][/\ written' # << >> => StagesCompleted'
     /\ InOrder(written')
     /\ Len(written) <= Len(written') /\ SubSeq(written', 1, Len(written)) = written
     /\ call'.op = "write" =>
          /\ \A i \in 1..Len(outs[1]) : outs[1][i].status = "ok"
          /\ ret'.status # "ok" => pc' = "raised" /\ written' = written
          /\ ret'.status = "ok" => written' = Append(written, call'.output)]_vars

\* A run that built all four summaries and wrote the six files and the
\* sales table, whose next table the warehouse then rejected.
C14_Witness ==
  /\ pc = "raised"
  /\ call = [op |-> "write", output |-> [table |-> "analytics.summary", name |-> "yearly"]]
  /\ ret.status = "OSError"
  /\ Len(written) = 7
  /\ written[1] = [file |-> "sales_enriched.parquet", name |-> "sales_enriched"]
  /\ written[6] = [file |-> "quality_report.json", name |-> "quality_report"]
  /\ written[7] = [table |-> "analytics.sales", name |-> "sales"]
====
